---- MODULE Spec2Model ----
(***************************************************************************)
(* Job store (src/job_store.py), the background task that wraps one run    *)
(* of the orchestrator (src/api/routes.py) and the orchestrator's          *)
(* process_episode (src/batch_processor.py), as one state machine.         *)
(*                                                                         *)
(* One job (TaskJob) is submitted and processed by one background task;    *)
(* a second job id is never created and stands for an unknown id.  The     *)
(* user (pause_job / resume_job), the stale-job sweep and the clock act    *)
(* between any two store calls of the task.                                *)
(***************************************************************************)
EXTENDS Integers, Sequences, FiniteSets, TLC

\* ---------------------------------------------------------------- bounds
MaxClips == 2      \* most clips one curation returns
MaxChunks == 2     \* most chunks a long transcript is split into
MaxAge == 1        \* hours the clock counts since a row's updated_at
MaxRanked == 2     \* most clips in one ranked_clips answer of the Ranker
MaxCurateChunks == 2    \* most chunks of the transcript handed to curate_chunked
MaxTopN == 1       \* largest top_n a caller passes (0 stands for None)
TranscriptDuration == 300   \* transcript.duration, seconds
MaxCollected == 3  \* most clips the chunk loop of one curation collects
MaxDedup == 3      \* most clips handed to one deduplication
MaxRetriesArg == 3 \* largest max_retries a caller of _call_agent passes
MaxSegments == 4   \* most segments of a transcript handed to the chunker

\* ------------------------------------------------------- program constants
AUTO_APPROVE_SCORE == 80
min_score == 70
ERROR_MESSAGE_CHARS == 100
HARD_MAX_DURATION == 180     \* seconds: "exceeds 3 min limit"
PENDING_MIN_SCORE == 50      \* a short clip with at least this total goes to review
MAX_RETRIES == 2             \* _call_agent(..., max_retries: int = 2)
MAX_CHARS == 6000            \* _chunk_transcript(..., max_chars: int = 6000)
OVERLAP_SECONDS == 120       \* _chunk_transcript(..., overlap_seconds: int = 120)

JobIds == {"job1", "job2"}
TaskJob == "job1"

\* total scores a curated clip can carry: below the threshold, at the threshold (review),
\* approved
Scores == {60, 70, 85}

Max(a, b) == IF a >= b THEN a ELSE b

\* ------------------------------------------------------------- job rows
NoJob == [status |-> "absent"]

\* A text is a sequence of characters; a fixed message is kept as one token.
NoError == <<>>

\* an error text of n characters that starts with the character first
Text(first, n) == [k \in 1..n |-> IF k = 1 THEN first ELSE "."]

\* RuntimeError(f"Agent {agent_name} failed: {e}"): a short text and one over 100 characters
AgentErrors == {Text("A", 3), Text("A", ERROR_MESSAGE_CHARS + 1)}

\* str(e) of any other exception of a run, e.g. Exception(f"Episode {ep_num} not found")
OtherErrors == {Text("E", 3)}

\* "Job timed out (stale)", 21 characters
StaleError == Text("J", 21)

VARIABLES
    jobs,            \* the jobs table: job id -> row, or NoJob
    call,            \* the store call the user just made, with its return value
    stale,           \* rows the sweep has selected and not yet failed
    swept,           \* the value the sweep returns (len(stale))
    pc,              \* position of the background task
    i,               \* 1-based clip number of the clip loop
    chunk,           \* 0-based chunk index of curate_chunked
    nchunks,         \* number of chunks of the transcript being curated
    clips_generated, \* process_episode's local counter
    start_from_clip, \* process_episode's parameter
    target_clip_id,  \* BatchProcessor.target_clip_id (0 = None)
    valid_clips,     \* the filtered, sorted clip list (total scores)
    hasTranscript,   \* transcript.json exists
    curation_file,   \* curation.json: NoFile or the persisted clip list
    artifacts,       \* clip number -> "none" | "approved" | "review"
    raised,          \* str(e) of the exception the task wrapper is about to catch
    input,           \* arguments of the curator function that is called on its own
    output,          \* what that function returns
    cpc,             \* position of the curator inside curate / curate_chunked
    chunk_i,         \* curate_chunked's loop index i (0-based)
    all_clips,       \* curate_chunked's all_clips, curate's clips
    calls,           \* the generation calls made so far, in order
    paused_at,       \* the chunk index before which pause_callback returned True, or -1
    attempt,         \* _call_agent's loop variable
    chats,           \* calls of self._llm.chat made by the running _call_agent
    slept,           \* the time.sleep calls of the running _call_agent, seconds each
    response         \* what the last _call_agent of the curator returned, or NoResponse

file_vars == <<hasTranscript, curation_file, artifacts>>
job_vars == <<jobs, call, stale, swept, pc, i, chunk, nchunks, clips_generated,
              start_from_clip, target_clip_id, valid_clips, hasTranscript, curation_file, artifacts,
              raised>>
agent_vars == <<attempt, chats, slept>>
cur_vars == <<cpc, chunk_i, all_clips, calls, paused_at, agent_vars, response>>
unit_vars == <<input, output, cur_vars>>
vars == <<job_vars, unit_vars>>

NoInput == [fn |-> "none"]
NoOutput == [fn |-> "none"]
\* no response text: no call yet, or _call_agent raised
NoResponse == [fenced |-> FALSE, body |-> "none"]

NoCall == [op |-> "none"]

NoFile == [exists |-> FALSE]

ClipFile(cl) == [exists |-> TRUE, clips |-> cl]

HasJob(js, j) == js[j] # NoJob

\* ------------------------------------------------------ JobStore operations
\* Each operator is the table after the call.

create_job(js, j, total) ==
    [js EXCEPT ![j] = [status |-> "pending", progress |-> 0, message |-> <<"Iniciando...">>,
                       clips_generated |-> 0, error |-> NoError, last_clip_index |-> 0,
                       total_clips |-> total, config |-> "config", age |-> 0]]

update_progress(js, j, progress, message, status) ==
    IF HasJob(js, j)
    THEN [js EXCEPT ![j] = [@ EXCEPT !.progress = progress, !.message = message,
                                     !.status = status, !.age = 0]]
    ELSE js

ClipPercent(clip_index, total) == ((clip_index + 1) * 100) \div Max(total, 1)

\* faulty variant: the stored index is one past the clip just completed
update_clip_progress_next(js, j, clip_index, generated, message) ==
    IF HasJob(js, j)
    THEN [js EXCEPT ![j] = [@ EXCEPT !.last_clip_index = clip_index + 1,
                                     !.clips_generated = generated,
                                     !.progress = ClipPercent(clip_index, js[j].total_clips),
                                     !.message = message, !.age = 0]]
    ELSE js

update_clip_progress(js, j, clip_index, generated, message) ==
    IF HasJob(js, j)
    THEN [js EXCEPT ![j] = [@ EXCEPT !.last_clip_index = clip_index,
                                     !.clips_generated = generated,
                                     !.progress = ClipPercent(clip_index, js[j].total_clips),
                                     !.message = message, !.age = 0]]
    ELSE js

\* faulty variant: the WHERE clause also matches a pending row
PauseGuardLoose(js, j) == HasJob(js, j) /\ js[j].status \in {"processing", "pending"}

\* WHERE job_id = ? AND status = 'processing'
PauseGuard(js, j) == HasJob(js, j) /\ js[j].status = "processing"

pause_job(js, j) ==
    IF PauseGuard(js, j)
    THEN [js EXCEPT ![j] = [@ EXCEPT !.status = "paused", !.message = <<"Pausado">>, !.age = 0]]
    ELSE js

\* faulty variant: the WHERE clause matches on job_id alone
ResumeGuardLoose(js, j) == HasJob(js, j)

\* WHERE job_id = ? AND status = 'paused'
ResumeGuard(js, j) == HasJob(js, j) /\ js[j].status = "paused"

resume_job(js, j) ==
    IF ResumeGuard(js, j)
    THEN [js EXCEPT ![j] = [@ EXCEPT !.status = "resuming", !.message = <<"Reanudando...">>, !.age = 0]]
    ELSE js

set_total_clips(js, j, total) ==
    IF HasJob(js, j) THEN [js EXCEPT ![j] = [@ EXCEPT !.total_clips = total]] ELSE js

complete_job(js, j, generated) ==
    IF HasJob(js, j)
    THEN [js EXCEPT ![j] = [@ EXCEPT !.status = "completed", !.progress = 100,
                                     !.message = <<"clips generados">>,
                                     !.clips_generated = generated, !.age = 0]]
    ELSE js

\* error[:100]
Truncate(text, n) == SubSeq(text, 1, IF Len(text) < n THEN Len(text) ELSE n)

\* f"Error: {error[:100]}"
ErrorMessage(error) == <<"Error: ">> \o Truncate(error, ERROR_MESSAGE_CHARS)

\* faulty variant: the error column gets the truncated text as well
fail_job_truncating(js, j, error) ==
    IF HasJob(js, j)
    THEN [js EXCEPT ![j] = [@ EXCEPT !.status = "error", !.message = ErrorMessage(error),
                                     !.error = Truncate(error, ERROR_MESSAGE_CHARS), !.age = 0]]
    ELSE js

fail_job(js, j, error) ==
    IF HasJob(js, j)
    THEN [js EXCEPT ![j] = [@ EXCEPT !.status = "error", !.message = ErrorMessage(error),
                                     !.error = error, !.age = 0]]
    ELSE js

\* get_job(job_id).status, "absent" when there is no row
StatusOf(j) == jobs[j].status

\* the pause_callback handed to curate_chunked: job.status == 'paused'
check_pause == HasJob(jobs, TaskJob) /\ StatusOf(TaskJob) = "paused"

\* rows cleanup_stale_jobs(max_age_hours) selects
StaleRows(js, max_age_hours) ==
    {j \in JobIds : HasJob(js, j) /\ js[j].status = "processing" /\ js[j].age > max_age_hours}


\* --------------------------------------------------------- orchestrator
\* clip lists in any order: what the pause return of curate_chunked hands back
PartialLists == UNION {[1..n -> Scores] : n \in 0..MaxClips}

\* what a completed curation returns: the list after its sort, best score first
ClipLists == {cl \in PartialLists : \A a, b \in DOMAIN cl : a < b => cl[a] >= cl[b]}

\* number of clips of cl with total score v
Count(cl, v) == Cardinality({k \in DOMAIN cl : cl[k] = v})

\* cl.sort(key=lambda x: x.virality_score.total, reverse=True): the stable descending sort;
\* clips are known by their score only, so every clip of rank k is preceded by the
\* clips of higher score and by the earlier clips of its own score
SortDesc(cl) ==
    LET rank(k) == Cardinality({m \in DOMAIN cl : cl[m] > cl[k] \/ (cl[m] = cl[k] /\ m <= k)})
    IN  [r \in DOMAIN cl |-> cl[CHOOSE k \in DOMAIN cl : rank(k) = r]]

\* int(30 + (current / total) * 40)
CurationPercent(current, total) == 30 + (40 * current) \div total

\* int(70 + (i / len(valid_clips)) * 30)
LoopPercent(k, n) == 70 + (30 * k) \div n

\* faulty variant: a clip exactly at the threshold is dropped
MeetsThresholdStrict(score) == score > min_score

MeetsThreshold(score) == score >= min_score

\* valid_clips after the score filter, the sort and the clip-id filter; <<>> where the code
\* returns 0
FilterClips(curated, target) ==
    LET valid == SortDesc(SelectSeq(curated, MeetsThreshold))
    IN  IF target = 0 THEN valid
        ELSE IF 1 <= target /\ target <= Len(valid) THEN <<valid[target]>>
        ELSE <<>>

TargetFolder(score) == IF score >= AUTO_APPROVE_SCORE THEN "approved" ELSE "review"

\* faulty variant: the loop ignores start_from_clip
FirstClipRestart(start) == 1

\* first clip number the loop does not skip as "already processed"
FirstClip(start) == start + 1

Running == pc \notin {"unsubmitted", "done", "crashed"}

\* process_episode has the clip list: either it returns 0 or it goes on to the clip loop
AfterCuration(curated) ==
    LET valid == FilterClips(curated, target_clip_id)
    IN  /\ valid_clips' = valid
        /\ pc' = IF valid = <<>> THEN "ret" ELSE "set_total"

\* the endpoint: create_job, then the background task is queued
Submit ==
    /\ pc = "unsubmitted"
    /\ jobs' = create_job(jobs, TaskJob, 0)
    /\ pc' = "queued"
    /\ \E t \in 0..MaxClips : target_clip_id' = t
    /\ call' = NoCall
    /\ UNCHANGED <<stale, swept, i, chunk, nchunks, clips_generated, start_from_clip, valid_clips>>
    /\ UNCHANGED <<file_vars, unit_vars, raised>>

\* a store write of the task that only moves pc
Write(from, newjobs, to) ==
    /\ pc = from
    /\ jobs' = newjobs
    /\ pc' \in to
    /\ IF pc' = "exc" THEN raised' \in OtherErrors ELSE UNCHANGED raised
    /\ call' = NoCall
    /\ UNCHANGED <<stale, swept, i, chunk, nchunks, clips_generated, start_from_clip,
                   target_clip_id, valid_clips>>
    /\ UNCHANGED <<file_vars, unit_vars>>

\* run_processing_task writes 0 with status processing, run_batch_task writes 5
TaskStart ==
    \E p \in {0, 5} :
        Write("queued", update_progress(jobs, TaskJob, p, <<"progress">>, "processing"), {"pe25", "exc"})

Phase1 == Write("pe25", update_progress(jobs, TaskJob, 25, <<"progress">>, "processing"), {"pe27"})

\* after the write: an invalid video returns 0
Phase2 == Write("pe27", update_progress(jobs, TaskJob, 27, <<"progress">>, "processing"), {"pe29", "ret"})

Phase3 ==
    Write("pe29", update_progress(jobs, TaskJob, 29, <<"progress">>, "processing"),
          IF hasTranscript THEN {"pe33"} ELSE {"tr15"})

Transcribe15 == Write("tr15", update_progress(jobs, TaskJob, 15, <<"progress">>, "processing"), {"tr20"})

Transcribe20 ==
    Write("tr20", update_progress(jobs, TaskJob, 20, <<"progress">>, "processing"), {"tr70", "exc"})

Transcribe70 == Write("tr70", update_progress(jobs, TaskJob, 70, <<"progress">>, "processing"), {"tr75"})

Transcribe75 ==
    /\ pc = "tr75"
    /\ jobs' = update_progress(jobs, TaskJob, 75, <<"progress">>, "processing")
    /\ hasTranscript' = TRUE
    /\ pc' = "pe33"
    /\ call' = NoCall
    /\ UNCHANGED <<stale, swept, i, chunk, nchunks, clips_generated, start_from_clip,
                   target_clip_id, valid_clips, curation_file, artifacts, unit_vars, raised>>

Phase4 == Write("pe33", update_progress(jobs, TaskJob, 33, <<"progress">>, "processing"), {"pe35"})

\* faulty variant: curation is run whether or not curation.json exists
Phase5Recurate ==
    /\ pc = "pe35"
    /\ jobs' = update_progress(jobs, TaskJob, 35, <<"progress">>, "processing")
    /\ call' = NoCall
    /\ \E n \in 0..MaxChunks :
          /\ nchunks' = n
          /\ pc' = IF n = 0 THEN "cur_short" ELSE "cur_init"
    /\ UNCHANGED valid_clips
    /\ UNCHANGED <<stale, swept, i, chunk, clips_generated, start_from_clip, target_clip_id>>
    /\ UNCHANGED <<file_vars, unit_vars, raised>>

\* the write of line 204, then either the persisted curation is loaded or curation starts
Phase5 ==
    /\ pc = "pe35"
    /\ jobs' = update_progress(jobs, TaskJob, 35, <<"progress">>, "processing")
    /\ call' = NoCall
    /\ IF curation_file.exists
       THEN /\ AfterCuration(curation_file.clips)
            /\ UNCHANGED nchunks
       ELSE /\ \E n \in 0..MaxChunks :
                 /\ nchunks' = n
                 /\ pc' = IF n = 0 THEN "cur_short" ELSE "cur_init"
            /\ UNCHANGED valid_clips
    /\ UNCHANGED <<stale, swept, i, chunk, clips_generated, start_from_clip, target_clip_id>>
    /\ UNCHANGED <<file_vars, unit_vars, raised>>

\* curation ends with the list cl: it is persisted and filtered
FinishCuration(cl) ==
    /\ curation_file' = ClipFile(cl)
    /\ AfterCuration(cl)
    /\ chunk' = 0
    /\ nchunks' = 0
    /\ UNCHANGED <<hasTranscript, artifacts, i, clips_generated, start_from_clip, target_clip_id,
                   unit_vars, raised>>

\* a transcript of at most 6000 characters: curate(), no callbacks
CurateShort ==
    /\ pc = "cur_short"
    /\ call' = NoCall
    /\ UNCHANGED <<jobs, stale, swept>>
    /\ \/ \E cl \in ClipLists : FinishCuration(cl)
       \/ /\ pc' = "exc"
          /\ raised' \in AgentErrors
          /\ UNCHANGED <<i, chunk, nchunks, clips_generated, start_from_clip, target_clip_id, valid_clips>>
          /\ UNCHANGED <<file_vars, unit_vars>>

CurateInit ==
    Write("cur_init", update_progress(jobs, TaskJob, CurationPercent(0, nchunks), <<"progress">>, "processing"),
          {"cur_check"})

\* pause_callback before each chunk; paused returns the clips collected so far
CuratePauseCheck ==
    /\ pc = "cur_check"
    /\ call' = NoCall
    /\ UNCHANGED <<jobs, stale, swept>>
    /\ IF check_pause
       THEN \E cl \in PartialLists :
                /\ chunk = 0 => cl = <<>>
                /\ FinishCuration(cl)
       ELSE /\ pc' = "cur_prog"
            /\ UNCHANGED <<i, chunk, nchunks, clips_generated, start_from_clip, target_clip_id, valid_clips>>
            /\ UNCHANGED <<file_vars, unit_vars, raised>>

\* progress_callback of the chunk, then its agent calls
CurateChunk ==
    /\ pc = "cur_prog"
    /\ jobs' = update_progress(jobs, TaskJob, CurationPercent(chunk + 1, nchunks), <<"progress">>, "processing")
    /\ call' = NoCall
    /\ UNCHANGED <<stale, swept>>
    /\ \/ /\ pc' = "exc"
          /\ raised' \in AgentErrors
          /\ UNCHANGED <<i, chunk, nchunks, clips_generated, start_from_clip, target_clip_id, valid_clips>>
          /\ UNCHANGED <<file_vars, unit_vars>>
       \/ /\ chunk + 1 < nchunks
          /\ chunk' = chunk + 1
          /\ pc' = "cur_check"
          /\ UNCHANGED <<i, nchunks, clips_generated, start_from_clip, target_clip_id, valid_clips>>
          /\ UNCHANGED <<file_vars, unit_vars, raised>>
       \/ /\ chunk + 1 = nchunks
          /\ \E cl \in ClipLists : FinishCuration(cl)

\* the pc after clip k: the next clip's pause check, or the end of the loop
LoopAt(k) == IF k > Len(valid_clips) THEN "ret" ELSE "loop"

SetTotal ==
    /\ pc = "set_total"
    /\ jobs' = set_total_clips(jobs, TaskJob, Len(valid_clips))
    /\ i' = FirstClip(start_from_clip)
    /\ pc' = LoopAt(i')
    /\ call' = NoCall
    /\ UNCHANGED <<stale, swept, chunk, nchunks, clips_generated, start_from_clip, target_clip_id, valid_clips>>
    /\ UNCHANGED <<file_vars, unit_vars, raised>>

\* the pause check before each clip
LoopPauseCheck ==
    /\ pc = "loop"
    /\ pc' = IF StatusOf(TaskJob) = "paused" THEN "ret_paused" ELSE "clip_prog"
    /\ call' = NoCall
    /\ UNCHANGED <<jobs, stale, swept, i, chunk, nchunks, clips_generated, start_from_clip,
                   target_clip_id, valid_clips>>
    /\ UNCHANGED <<file_vars, unit_vars, raised>>

ClipProgress ==
    Write("clip_prog",
          update_progress(jobs, TaskJob, LoopPercent(i, Len(valid_clips)), <<"progress">>, "processing"),
          IF artifacts[i] # "none" THEN {"clip_skip"} ELSE {"extract"})

\* the artifact exists: recorded as complete, the local counter is left alone
ClipSkip ==
    /\ pc = "clip_skip"
    /\ jobs' = update_clip_progress(jobs, TaskJob, i,
                    clips_generated + (IF artifacts[i] = "approved" THEN 1 ELSE 0), <<"clip">>)
    /\ i' = i + 1
    /\ pc' = LoopAt(i + 1)
    /\ call' = NoCall
    /\ UNCHANGED <<stale, swept, chunk, nchunks, clips_generated, start_from_clip, target_clip_id, valid_clips>>
    /\ UNCHANGED <<file_vars, unit_vars, raised>>

\* faulty variant: an exception of the clip's processing leaves the loop
ExtractUncaught ==
    /\ pc = "extract"
    /\ call' = NoCall
    /\ UNCHANGED <<jobs, stale, swept, chunk, nchunks, start_from_clip, target_clip_id, valid_clips,
                   hasTranscript, curation_file, unit_vars>>
    /\ \/ /\ artifacts' = [artifacts EXCEPT ![i] = TargetFolder(valid_clips[i])]
          /\ clips_generated' = clips_generated + 1
          /\ pc' = "clip_done"
          /\ UNCHANGED <<i, raised>>
       \/ /\ pc' = "exc"
          /\ raised' \in OtherErrors
          /\ UNCHANGED <<i, artifacts, clips_generated>>

\* extraction .. subtitles .. caption: all succeed, fail before the artifact, or fail after it
Extract ==
    /\ pc = "extract"
    /\ call' = NoCall
    /\ UNCHANGED <<jobs, stale, swept, chunk, nchunks, start_from_clip, target_clip_id, valid_clips,
                   hasTranscript, curation_file, unit_vars, raised>>
    /\ \/ /\ artifacts' = [artifacts EXCEPT ![i] = TargetFolder(valid_clips[i])]
          /\ clips_generated' = clips_generated + 1
          /\ pc' = "clip_done"
          /\ UNCHANGED i
       \/ /\ i' = i + 1
          /\ pc' = LoopAt(i + 1)
          /\ UNCHANGED <<artifacts, clips_generated>>
       \/ /\ artifacts' = [artifacts EXCEPT ![i] = TargetFolder(valid_clips[i])]
          /\ i' = i + 1
          /\ pc' = LoopAt(i + 1)
          /\ UNCHANGED clips_generated

ClipDone ==
    /\ pc = "clip_done"
    /\ jobs' = update_clip_progress(jobs, TaskJob, i, clips_generated, <<"clip">>)
    /\ i' = i + 1
    /\ pc' = LoopAt(i + 1)
    /\ call' = NoCall
    /\ UNCHANGED <<stale, swept, chunk, nchunks, clips_generated, start_from_clip, target_clip_id, valid_clips>>
    /\ UNCHANGED <<file_vars, unit_vars, raised>>

\* the task's locals are gone once it ends
TaskEnds(how) ==
    /\ pc' = how
    /\ i' = 0
    /\ chunk' = 0
    /\ nchunks' = 0
    /\ clips_generated' = 0
    /\ start_from_clip' = 0
    /\ valid_clips' = <<>>
    /\ raised' = NoError
    /\ call' = NoCall
    /\ UNCHANGED <<stale, swept, target_clip_id>>
    /\ UNCHANGED <<file_vars, unit_vars>>

\* process_episode returned clips_count: the wrapper marks the job complete
TaskComplete ==
    /\ pc \in {"ret", "ret_paused"}
    /\ jobs' = complete_job(jobs, TaskJob, clips_generated)
    /\ TaskEnds("done")

\* faulty variant: the wrapper swallows the exception without a store write
TaskFailSilent ==
    /\ pc = "exc"
    /\ UNCHANGED jobs
    /\ TaskEnds("done")

\* except Exception: fail_job
TaskFail ==
    /\ pc = "exc"
    /\ jobs' = fail_job(jobs, TaskJob, raised)
    /\ TaskEnds("done")

\* the process dies
Crash ==
    /\ Running
    /\ UNCHANGED jobs
    /\ TaskEnds("crashed")


\* the resumed job is picked up: a fresh run of the orchestrator from the stored position
Pickup ==
    /\ pc \in {"done", "crashed"}
    /\ StatusOf(TaskJob) = "resuming"
    /\ start_from_clip' = jobs[TaskJob].last_clip_index
    /\ pc' = "pe25"
    /\ call' = NoCall
    /\ UNCHANGED <<jobs, stale, swept, i, chunk, nchunks, clips_generated, target_clip_id, valid_clips>>
    /\ UNCHANGED <<file_vars, unit_vars, raised>>

\* ------------------------------------------------------------ environment
Others == <<stale, swept, pc, i, chunk, nchunks, clips_generated, start_from_clip,
            target_clip_id, valid_clips, hasTranscript, curation_file, artifacts, raised, unit_vars>>

\* the user pauses job j
PauseJob(j) ==
    /\ jobs' = pause_job(jobs, j)
    /\ call' = NoCall
    /\ UNCHANGED Others

\* the user resumes job j
ResumeJob(j) ==
    /\ jobs' = resume_job(jobs, j)
    /\ call' = NoCall
    /\ UNCHANGED Others

\* the same calls with their return value (rowcount > 0) kept for inspection
PauseCall(j) ==
    /\ jobs' = pause_job(jobs, j)
    /\ call' = [op |-> "pause_job", job |-> j, before |-> jobs[j], ret |-> PauseGuard(jobs, j)]
    /\ UNCHANGED Others

ResumeCall(j) ==
    /\ jobs' = resume_job(jobs, j)
    /\ call' = [op |-> "resume_job", job |-> j, before |-> jobs[j], ret |-> ResumeGuard(jobs, j)]
    /\ UNCHANGED Others

\* cleanup_stale_jobs: the SELECT
SweepSelect ==
    /\ stale = {}
    /\ \E max_age_hours \in 0..(MaxAge - 1) :
          /\ stale' = StaleRows(jobs, max_age_hours)
          /\ swept' = Cardinality(stale')
    /\ call' = NoCall
    /\ UNCHANGED <<jobs, pc, i, chunk, nchunks, clips_generated, start_from_clip,
                   target_clip_id, valid_clips>>
    /\ UNCHANGED <<file_vars, unit_vars, raised>>

\* cleanup_stale_jobs: fail_job for one selected row
SweepFail ==
    /\ \E j \in stale :
          /\ jobs' = fail_job(jobs, j, StaleError)
          /\ stale' = stale \ {j}
    /\ call' = NoCall
    /\ UNCHANGED <<swept, pc, i, chunk, nchunks, clips_generated, start_from_clip,
                   target_clip_id, valid_clips>>
    /\ UNCHANGED <<file_vars, unit_vars, raised>>

\* an hour passes
Tick ==
    /\ \E j \in JobIds : HasJob(jobs, j) /\ jobs[j].age < MaxAge
    /\ jobs' = [j \in JobIds |->
                  IF HasJob(jobs, j) /\ jobs[j].age < MaxAge
                  THEN [jobs[j] EXCEPT !.age = @ + 1] ELSE jobs[j]]
    /\ call' = NoCall
    /\ UNCHANGED Others

\* the store and the task before any job is submitted
JobInit ==
    /\ jobs = [j \in JobIds |-> NoJob]
    /\ call = NoCall
    /\ stale = {}
    /\ swept = 0
    /\ pc = "unsubmitted"
    /\ i = 0
    /\ chunk = 0
    /\ nchunks = 0
    /\ clips_generated = 0
    /\ start_from_clip = 0
    /\ target_clip_id = 0
    /\ valid_clips = <<>>
    /\ hasTranscript \in BOOLEAN
    /\ curation_file = NoFile
    /\ raised = NoError

\* the curator is not running
CurIdle ==
    /\ cpc = "idle"
    /\ chunk_i = 0
    /\ all_clips = <<>>
    /\ calls = <<>>
    /\ paused_at = -1
    /\ attempt = 0
    /\ chats = 0
    /\ slept = <<>>
    /\ response = NoResponse

\* the clips folder of an episode that has not been processed
NoArtifacts == [k \in 1..MaxClips |-> "none"]

Init ==
    /\ JobInit
    /\ artifacts = NoArtifacts
    /\ input = NoInput
    /\ output = NoOutput
    /\ CurIdle

\* the background task and the pickup of a resumed job
TaskNext ==
    \/ Submit
    \/ TaskStart
    \/ Phase1
    \/ Phase2
    \/ Phase3
    \/ Transcribe15
    \/ Transcribe20
    \/ Transcribe70
    \/ Transcribe75
    \/ Phase4
    \/ Phase5
    \/ CurateShort
    \/ CurateInit
    \/ CuratePauseCheck
    \/ CurateChunk
    \/ SetTotal
    \/ LoopPauseCheck
    \/ ClipProgress
    \/ ClipSkip
    \/ Extract
    \/ ClipDone
    \/ TaskComplete
    \/ TaskFail
    \/ Crash
    \/ Pickup

Next ==
    \/ TaskNext
    \/ \E j \in JobIds : PauseJob(j)
    \/ \E j \in JobIds : ResumeJob(j)
    \/ SweepSelect
    \/ SweepFail
    \/ Tick

Spec == Init /\ [][Next]_vars

\* the task and the user, with the return value of each pause_job / resume_job call
\* observed; the sweep and the clock are left to Spec
NextCalls ==
    \/ TaskNext
    \/ \E j \in JobIds : PauseCall(j)
    \/ \E j \in JobIds : ResumeCall(j)

SpecCalls == Init /\ [][NextCalls]_vars

\* the steps of one run of the background task, from its first store write to its return
TaskRun ==
    \/ TaskStart
    \/ Phase1
    \/ Phase2
    \/ Phase3
    \/ Transcribe15
    \/ Transcribe20
    \/ Transcribe70
    \/ Transcribe75
    \/ Phase4
    \/ Phase5
    \/ CurateShort
    \/ CurateInit
    \/ CuratePauseCheck
    \/ CurateChunk
    \/ SetTotal
    \/ LoopPauseCheck
    \/ ClipProgress
    \/ ClipSkip
    \/ Extract
    \/ ClipDone
    \/ TaskComplete
    \/ TaskFail

\* the system whose process does not die: the task, the user, the sweep and the clock
NextAlive ==
    \/ Submit
    \/ TaskRun
    \/ \E j \in JobIds : PauseJob(j)
    \/ \E j \in JobIds : ResumeJob(j)
    \/ SweepSelect
    \/ SweepFail
    \/ Tick

\* the episode may have been processed before: clip_01.mp4 can be in the approved folder
InitAlive ==
    /\ JobInit
    /\ artifacts \in {NoArtifacts, [NoArtifacts EXCEPT ![1] = "approved"]}
    /\ input = NoInput
    /\ output = NoOutput
    /\ CurIdle

\* a queued background task is run by the worker to its return: every call it makes
\* comes back, so a step of the task that is possible is eventually taken
SpecAlive == InitAlive /\ [][NextAlive]_vars /\ WF_vars(TaskRun)


\* ------------------------------------------------- duration classification
\* Times are whole seconds.

\* faulty variant: a clip of exactly half the minimum is rejected as well
validate_clip_duration_half(start_time, end_time, min_duration, max_duration, virality_score) ==
    LET duration == end_time - start_time
    IN  IF 2 * duration <= min_duration THEN "invalid"
        ELSE IF duration > HARD_MAX_DURATION THEN "invalid"
        ELSE IF min_duration <= duration /\ duration <= max_duration THEN "valid"
        ELSE IF duration > max_duration THEN "pending"
        ELSE IF duration < min_duration /\ virality_score >= PENDING_MIN_SCORE THEN "pending"
        ELSE "invalid"

\* MultiAgentCurator._validate_clip_duration; duration < min_duration * 0.5 is
\* 2 * duration < min_duration
validate_clip_duration(start_time, end_time, min_duration, max_duration, virality_score) ==
    LET duration == end_time - start_time
    IN  IF 2 * duration < min_duration THEN "invalid"
        ELSE IF duration > HARD_MAX_DURATION THEN "invalid"
        ELSE IF min_duration <= duration /\ duration <= max_duration THEN "valid"
        ELSE IF duration > max_duration THEN "pending"
        ELSE IF duration < min_duration /\ virality_score >= PENDING_MIN_SCORE THEN "pending"
        ELSE "invalid"

\* the arguments the function is applied to
DurationStarts == {0, 5}
DurationLengths == {10, 14, 15, 20, 29, 30, 60, 90, 91, 95, 180, 181}
DurationMins == {30, 28}
DurationMaxs == {90, 60, 20}
DurationScores == {10, 49, 50, 60}

DurationInputs ==
    {[fn |-> "_validate_clip_duration", start_time |-> s, end_time |-> s + d,
      min_duration |-> lo, max_duration |-> hi, virality_score |-> sc] :
        s \in DurationStarts, d \in DurationLengths, lo \in DurationMins, hi \in DurationMaxs,
        sc \in DurationScores}

InitDuration ==
    /\ JobInit
    /\ artifacts = NoArtifacts
    /\ hasTranscript = FALSE
    /\ input \in DurationInputs
    /\ output = NoOutput
    /\ CurIdle

\* one call of _validate_clip_duration
ValidateDuration ==
    /\ input.fn = "_validate_clip_duration"
    /\ output = NoOutput
    /\ output' = [fn |-> input.fn,
                  status |-> validate_clip_duration(input.start_time, input.end_time,
                                 input.min_duration, input.max_duration, input.virality_score)]
    /\ UNCHANGED <<input, cur_vars, job_vars>>

NextDuration == ValidateDuration

SpecDuration == InitDuration /\ [][NextDuration]_vars


\* ------------------------------------------------------------- the curator
\* curate and curate_chunked on their own: the transcript, the agents' answers and the
\* pause callback are inputs.

\* what the Ranker's JSON can hold under "start_time" or "end_time": a number of
\* seconds, nothing (the key is missing or null), a text that is no number, NaN, Infinity,
\* or an integer literal too large for a float
Num(n) == [kind |-> "number", v |-> n]
Missing == [kind |-> "null", v |-> 0]
Word == [kind |-> "string", v |-> 0]
NaN == [kind |-> "nan", v |-> 0]
Infinity == [kind |-> "inf", v |-> 0]
BigInt == [kind |-> "bigint", v |-> 0]

\* what the Ranker can put into ranked_clips: timestamps, the sum of the nine sub-scores
\* other than optimal_duration, optimal_duration, and the bonus the clip's category, title
\* and summary earn in _apply_performance_bonus
RawClip(s, e, o, d, b) ==
    [start_time |-> s, end_time |-> e, others |-> o, optimal_duration |-> d, text_bonus |-> b]

RawClips ==
    { RawClip(Num(0), Num(40), 60, 5, 0),        \* 40 s, in range
      RawClip(Num(10), Num(50), 80, 5, 0),       \* overlaps the first by 30 s, higher score
      RawClip(Num(100), Num(200), 55, 5, 0),     \* 100 s: longer than the maximum, review
      RawClip(Num(0), Num(10), 80, 5, 0),        \* 10 s: too short
      RawClip(Num(0), BigInt, 80, 5, 0) }        \* an end no float can hold

RankedLists == UNION {[1..n -> RawClips] : n \in 0..MaxRanked}

\* the results of _sanitize_timestamp that are no timestamp: a timestamp is never negative
None == -1
OverflowError == -2

\* _sanitize_timestamp(value, max_duration): float(value) raises TypeError or ValueError,
\* which are caught, for nothing and for a text, and OverflowError, which is not, for an
\* integer beyond the floats; NaN and Infinity fail the range and isfinite tests
sanitize_timestamp(value, max_duration) ==
    IF value.kind \in {"null", "string"} THEN None
    ELSE IF value.kind = "bigint" THEN OverflowError
    ELSE IF value.kind \in {"nan", "inf"} THEN None
    ELSE IF value.v < 0 \/ value.v > max_duration THEN None
    ELSE value.v

\* virality_score.total
Total(clip) == clip.others + clip.optimal_duration

Duration(clip) == clip.end_time - clip.start_time

\* the duration part of the bonus
DurationBonus(d) ==
    IF 30 <= d /\ d <= 40 THEN 5
    ELSE IF 40 < d /\ d <= 60 THEN 3
    ELSE IF 25 <= d /\ d < 30 THEN 2
    ELSE IF 60 < d /\ d <= 90 THEN 0
    ELSE IF d > 90 THEN -3
    ELSE 0

\* max(0, min(10, optimal_duration + bonus))
apply_performance_bonus(clip) ==
    LET raised_to == clip.optimal_duration + DurationBonus(Duration(clip)) + clip.text_bonus
        capped == IF raised_to > 10 THEN 10 ELSE raised_to
    IN  [clip EXCEPT !.optimal_duration = IF capped < 0 THEN 0 ELSE capped]

\* start_time, end_time as the loop body has them after the two _sanitize_timestamp calls
StartOf(raw) == sanitize_timestamp(raw.start_time, TranscriptDuration)
EndOf(raw) == sanitize_timestamp(raw.end_time, TranscriptDuration)

\* one of the two _sanitize_timestamp calls raises; nothing in the loop catches it
Raises(raw) == StartOf(raw) = OverflowError \/ EndOf(raw) = OverflowError

\* the validation_status of a clip_data whose timestamps passed
StatusOfRaw(raw, min_duration, max_duration) ==
    validate_clip_duration(StartOf(raw), EndOf(raw), min_duration, max_duration, Total(raw))

\* the clip_data is not skipped: timestamps sanitized, end after start, duration not invalid
Accepts(raw, min_duration, max_duration) ==
    /\ StartOf(raw) # None
    /\ EndOf(raw) # None
    /\ ~(EndOf(raw) <= StartOf(raw))
    /\ StatusOfRaw(raw, min_duration, max_duration) # "invalid"

\* faulty variant: the clip is built without the review tag
MakeClipUntagged(raw, min_duration, max_duration) ==
    apply_performance_bonus(
        [start_time |-> StartOf(raw), end_time |-> EndOf(raw), others |-> raw.others,
         optimal_duration |-> raw.optimal_duration, text_bonus |-> raw.text_bonus,
         pending_review |-> FALSE,
         review_reason |-> <<>>,
         social_caption |-> FALSE])

\* the CuratedClipV2 built from an accepted clip_data
MakeClip(raw, min_duration, max_duration) ==
    apply_performance_bonus(
        [start_time |-> StartOf(raw), end_time |-> EndOf(raw), others |-> raw.others,
         optimal_duration |-> raw.optimal_duration, text_bonus |-> raw.text_bonus,
         pending_review |-> StatusOfRaw(raw, min_duration, max_duration) = "pending",
         review_reason |-> IF StatusOfRaw(raw, min_duration, max_duration) = "pending"
                           THEN <<"Duration outside range">> ELSE <<>>,
         social_caption |-> FALSE])

\* the loop over ranked_clips raises at one of its clip_data
ParseRaises(ranked) == \E k \in DOMAIN ranked : Raises(ranked[k])

\* the clips one ranked_clips list adds, in its order, when the loop does not raise
ParseClips(ranked, min_duration, max_duration) ==
    LET kept == SelectSeq(ranked, LAMBDA raw : Accepts(raw, min_duration, max_duration))
    IN  [k \in DOMAIN kept |-> MakeClip(kept[k], min_duration, max_duration)]

\* sorted(clips, key=lambda c: c.start_time)
SortByStart(clips) ==
    LET rank(k) == Cardinality({m \in DOMAIN clips :
                       \/ clips[m].start_time < clips[k].start_time
                       \/ clips[m].start_time = clips[k].start_time /\ m <= k})
    IN  [r \in DOMAIN clips |-> clips[CHOOSE k \in DOMAIN clips : rank(k) = r]]

\* clips.sort(key=lambda c: c.virality_score.total, reverse=True)
SortByTotal(clips) ==
    LET rank(k) == Cardinality({m \in DOMAIN clips :
                       \/ Total(clips[m]) > Total(clips[k])
                       \/ Total(clips[m]) = Total(clips[k]) /\ m <= k})
    IN  [r \in DOMAIN clips |-> clips[CHOOSE k \in DOMAIN clips : rank(k) = r]]

\* faulty variant: a duplicate only when the overlap is more than half of both clips
IsDuplicateBoth(clip, existing) ==
    LET overlap_start == Max(clip.start_time, existing.start_time)
        overlap_end == IF clip.end_time < existing.end_time THEN clip.end_time
                       ELSE existing.end_time
        overlap_duration == Max(0, overlap_end - overlap_start)
    IN  /\ Duration(clip) > 0 /\ 2 * overlap_duration > Duration(clip)
        /\ Duration(existing) > 0 /\ 2 * overlap_duration > Duration(existing)

\* the overlap is more than overlap_threshold = 0.5 of the duration of either clip
IsDuplicate(clip, existing) ==
    LET overlap_start == Max(clip.start_time, existing.start_time)
        overlap_end == IF clip.end_time < existing.end_time THEN clip.end_time
                       ELSE existing.end_time
        overlap_duration == Max(0, overlap_end - overlap_start)
    IN  \/ Duration(clip) > 0 /\ 2 * overlap_duration > Duration(clip)
        \/ Duration(existing) > 0 /\ 2 * overlap_duration > Duration(existing)

RECURSIVE DedupLoop(_, _, _)
\* the loop over sorted_clips from position k on, with unique_clips so far
DedupLoop(sorted_clips, k, unique_clips) ==
    IF k > Len(sorted_clips) THEN unique_clips
    ELSE LET clip == sorted_clips[k]
             dups == {u \in DOMAIN unique_clips : IsDuplicate(clip, unique_clips[u])}
         IN  IF dups = {}
             THEN DedupLoop(sorted_clips, k + 1, Append(unique_clips, clip))
             ELSE LET u == CHOOSE x \in dups : \A y \in dups : x <= y
                  IN  DedupLoop(sorted_clips, k + 1,
                          IF Total(clip) > Total(unique_clips[u])
                          THEN [unique_clips EXCEPT ![u] = clip]
                          ELSE unique_clips)

deduplicate_clips(clips) ==
    IF Len(clips) <= 1 THEN clips ELSE DedupLoop(SortByStart(clips), 1, <<>>)

\* _deduplicate_clips on its own: the clips it is given
DedupSpans == {<<10, 50>>, <<40, 70>>, <<30, 55>>, <<41, 55>>, <<10, 30>>}
DedupOthers == {55, 65}

DedupClips ==
    {[start_time |-> sp[1], end_time |-> sp[2], others |-> o, optimal_duration |-> 5] :
        sp \in DedupSpans, o \in DedupOthers}

DedupInputs ==
    {[fn |-> "_deduplicate_clips", clips |-> cl] :
        cl \in UNION {[1..n -> DedupClips] : n \in 0..MaxDedup}}

InitDedup ==
    /\ JobInit
    /\ artifacts = NoArtifacts
    /\ hasTranscript = FALSE
    /\ input \in DedupInputs
    /\ output = NoOutput
    /\ CurIdle

\* one call of _deduplicate_clips
Deduplicate ==
    /\ input.fn = "_deduplicate_clips"
    /\ output = NoOutput
    /\ output' = [fn |-> input.fn, clips |-> deduplicate_clips(input.clips)]
    /\ UNCHANGED <<input, cur_vars, job_vars>>

NextDedup == Deduplicate

SpecDedup == InitDedup /\ [][NextDedup]_vars

\* ------------------------------------------- one clip, from Ranker to file
\* One clip_data of ranked_clips with its ten sub-scores, through the loop body of
\* curate / curate_chunked, _generate_captions, the write of curation.json and the load.

Dimensions ==
    {"hook_strength", "quotability", "storytelling", "controversy", "energy_level", "pacing",
     "emotional_arc", "standalone_clarity", "segment_completeness", "optimal_duration"}

\* a key the Ranker left out of virality_score
Absent == -1000

\* the sub-score values a Ranker answer carries besides 10
SubScoreValues == {-3, 0, 7, 12, Absent}

\* score_data: every sub-score 10 or every key left out, with one sub-score changed
ScoreDatas ==
    {[[d \in Dimensions |-> base] EXCEPT ![dim] = v] :
        base \in {10, Absent}, dim \in Dimensions, v \in SubScoreValues \cup {10}}

\* score_data.get(key, 0)
Get(score_data, key) == IF score_data[key] = Absent THEN 0 ELSE score_data[key]

\* ViralityScoreV2(hook_strength=score_data.get("hook_strength", 0), ...)
ViralityScoreV2(score_data) == [d \in Dimensions |-> Get(score_data, d)]

\* ViralityScoreV2.total
ScoreTotal(score) ==
    score.hook_strength + score.quotability + score.storytelling + score.controversy
        + score.energy_level + score.pacing + score.emotional_arc
        + score.standalone_clarity + score.segment_completeness + score.optimal_duration

\* category, by the word _apply_performance_bonus looks for in it
Categories == {"emotional", "story", "insight", "humor"}

\* title and summary, by the keyword lists of _apply_performance_bonus they hit
Titles == {{}, {"career", "nostalgia"}}
Summaries == {{}, {"legacy"}}

\* sanitized timestamps of the clip_data: 35, 50, 27, 100 and 10 seconds long
ClipSpans == {<<0, 35>>, <<10, 60>>, <<0, 27>>, <<100, 200>>, <<0, 10>>}

ClipDatas ==
    {[fn |-> "clip_data", start_time |-> sp[1], end_time |-> sp[2], virality_score |-> sd,
      category |-> c, title |-> t, summary |-> s, suggested_hashtags |-> h,
      min_duration |-> 30, max_duration |-> 90] :
        sp \in ClipSpans, sd \in ScoreDatas, c \in Categories, t \in Titles, s \in Summaries,
        h \in {<<>>, <<"#podcast">>}}

CategoryBonus(category) ==
    IF category = "emotional" THEN 4
    ELSE IF category = "story" THEN 4
    ELSE IF category = "insight" THEN 1
    ELSE 0

\* combined_text = title_lower + " " + summary_lower against the three keyword lists
TopicBonus(title, summary) ==
    LET combined_text == title \cup summary
    IN  (IF "career" \in combined_text THEN 3 ELSE 0)
        + (IF "nostalgia" \in combined_text THEN 2 ELSE 0)
        + (IF "legacy" \in combined_text THEN 2 ELSE 0)

Bonus(clip) ==
    DurationBonus(clip.end_time - clip.start_time) + CategoryBonus(clip.category)
        + TopicBonus(clip.title, clip.summary)

\* max(0, min(10, value))
Clamp10(value) == IF value > 10 THEN 10 ELSE IF value < 0 THEN 0 ELSE value

\* faulty variant: the bonus is added without the cap
ApplyBonusUncapped(clip) ==
    [clip EXCEPT !.virality_score.optimal_duration = @ + Bonus(clip)]

\* _apply_performance_bonus on a CuratedClipV2
ApplyBonus(clip) ==
    [clip EXCEPT !.virality_score.optimal_duration = Clamp10(@ + Bonus(clip))]

\* CuratedClipV2(...) of the loop body, then pending_review and review_reason
CuratedClipV2(clip_data) ==
    LET score == ViralityScoreV2(clip_data.virality_score)
        validation_status ==
            validate_clip_duration(clip_data.start_time, clip_data.end_time,
                                   clip_data.min_duration, clip_data.max_duration,
                                   ScoreTotal(score))
    IN  [start_time |-> clip_data.start_time, end_time |-> clip_data.end_time,
         title |-> clip_data.title, summary |-> clip_data.summary, virality_score |-> score,
         category |-> clip_data.category, suggested_hashtags |-> clip_data.suggested_hashtags,
         social_caption |-> "", caption_hashtags |-> <<>>,
         pending_review |-> validation_status = "pending",
         review_reason |-> IF validation_status = "pending"
                           THEN "Duration outside range" ELSE ""]

\* validation_status == 'invalid': continue
ClipInvalid(clip_data) ==
    validate_clip_duration(clip_data.start_time, clip_data.end_time, clip_data.min_duration,
                           clip_data.max_duration,
                           ScoreTotal(ViralityScoreV2(clip_data.virality_score))) = "invalid"

\* ViralityScoreV2.to_dict
ScoreToDict(score) ==
    [k \in Dimensions \cup {"total"} |-> IF k = "total" THEN ScoreTotal(score) ELSE score[k]]

\* ViralityScoreV2.from_dict: data.get(key, 0) for the ten sub-scores
ScoreFromDict(data) == [d \in Dimensions |-> IF d \in DOMAIN data THEN data[d] ELSE 0]

\* CuratedClipV2.to_dict
ClipToDict(clip) ==
    [start_time |-> clip.start_time, end_time |-> clip.end_time,
     duration |-> clip.end_time - clip.start_time,
     title |-> clip.title, summary |-> clip.summary,
     virality_score |-> ScoreToDict(clip.virality_score),
     category |-> clip.category, suggested_hashtags |-> clip.suggested_hashtags,
     social_caption |-> clip.social_caption, caption_hashtags |-> clip.caption_hashtags,
     pending_review |-> clip.pending_review, review_reason |-> clip.review_reason]

\* faulty variant: the review flags are not read back
ClipFromDictUnflagged(data) ==
    [start_time |-> data.start_time, end_time |-> data.end_time,
     title |-> data.title, summary |-> data.summary,
     virality_score |-> ScoreFromDict(data.virality_score),
     category |-> data.category,
     suggested_hashtags |-> data.suggested_hashtags,
     social_caption |-> data.social_caption,
     caption_hashtags |-> data.caption_hashtags,
     pending_review |-> FALSE,
     review_reason |-> ""]

\* CuratedClipV2.from_dict; to_dict writes every key, so no default of data.get is used
ClipFromDict(data) ==
    [start_time |-> data.start_time, end_time |-> data.end_time,
     title |-> data.title, summary |-> data.summary,
     virality_score |-> ScoreFromDict(data.virality_score),
     category |-> data.category,
     suggested_hashtags |-> data.suggested_hashtags,
     social_caption |-> data.social_caption,
     caption_hashtags |-> data.caption_hashtags,
     pending_review |-> data.pending_review,
     review_reason |-> data.review_reason]

InitClip ==
    /\ JobInit
    /\ artifacts = NoArtifacts
    /\ hasTranscript = FALSE
    /\ input \in ClipDatas
    /\ output = NoOutput
    /\ CurIdle

\* where the clip is: stage, the object, how often the bonus was applied, the stored dict
ClipAt(stage, clip, bonuses, stored) ==
    [fn |-> "clip_data", stage |-> stage, clip |-> clip, bonuses |-> bonuses, stored |-> stored]

\* the loop body up to the duration validation
ClipParse ==
    /\ input.fn = "clip_data"
    /\ output = NoOutput
    /\ output' = IF ClipInvalid(input)
                 THEN [fn |-> input.fn, stage |-> "skipped"]
                 ELSE ClipAt("validated", CuratedClipV2(input), 0, "none")
    /\ UNCHANGED <<input, cur_vars, job_vars>>

\* clip = self._apply_performance_bonus(clip); all_clips.append(clip)
ClipBonus ==
    /\ output.fn = "clip_data"
    /\ output.stage = "validated"
    /\ output' = ClipAt("collected", ApplyBonus(output.clip), output.bonuses + 1, "none")
    /\ UNCHANGED <<input, cur_vars, job_vars>>

\* _generate_captions sets the caption fields of a displayed clip
ClipCaption ==
    /\ output.fn = "clip_data"
    /\ output.stage = "collected"
    /\ output' = ClipAt("captioned",
                        [output.clip EXCEPT !.social_caption = "caption",
                                            !.caption_hashtags = <<"#ep">>],
                        output.bonuses, "none")
    /\ UNCHANGED <<input, cur_vars, job_vars>>

\* json.dump([c.to_dict() for c in curated_clips], f): numbers, texts, booleans and lists
\* are written as they are
ClipSave ==
    /\ output.fn = "clip_data"
    /\ output.stage \in {"collected", "captioned"}
    /\ output' = ClipAt("saved", output.clip, output.bonuses, ClipToDict(output.clip))
    /\ UNCHANGED <<input, cur_vars, job_vars>>

\* curated_clips = [CuratedClipV2.from_dict(d) for d in data] of a later run
ClipLoad ==
    /\ output.fn = "clip_data"
    /\ output.stage = "saved"
    /\ output' = ClipAt("loaded", ClipFromDict(output.stored), output.bonuses, output.stored)
    /\ UNCHANGED <<input, cur_vars, job_vars>>

NextClip == ClipParse \/ ClipBonus \/ ClipCaption \/ ClipSave \/ ClipLoad

SpecClip == InitClip /\ [][NextClip]_vars


\* ------------------------------------------------------- _chunk_transcript
\* The chunker on its own. A segment is its start, its end and the length of its text
\* line "[start - end] text"; a chunk is the sequence of the positions its segments have
\* in transcript.segments.

\* how a transcript is drawn: each segment starts some seconds after the one before it
\* (the segments are sorted by start), lasts some seconds and has some characters
SegAdvances == {50, 200}
SegLengths == {50, 250}
SegChars == {2500, 7000}

SegShapes == [advance : SegAdvances, length : SegLengths, chars : SegChars]

RECURSIVE StartAt(_, _)
StartAt(shapes, k) == IF k = 1 THEN 0 ELSE StartAt(shapes, k - 1) + shapes[k].advance

SegmentsOf(shapes) ==
    [k \in DOMAIN shapes |->
        [start |-> StartAt(shapes, k), end |-> StartAt(shapes, k) + shapes[k].length,
         chars |-> shapes[k].chars]]

ChunkInputs ==
    {[fn |-> "_chunk_transcript", segments |-> SegmentsOf(shapes)] :
        shapes \in UNION {[1..n -> SegShapes] : n \in 0..MaxSegments}}

RECURSIVE SumChars(_, _)
\* sum(len(...) for s in current_segments)
SumChars(segments, positions) ==
    IF positions = <<>> THEN 0
    ELSE segments[Head(positions)].chars + SumChars(segments, Tail(positions))

\* faulty variant: the segments left after the loop are not made a chunk
FinalChunkDropped(chunks, current_segments) == chunks

\* if current_segments: chunks.append(chunk)
FinalChunk(chunks, current_segments) ==
    IF current_segments # <<>> THEN Append(chunks, current_segments) ELSE chunks

\* overlap_segments = [s for s in current_segments if s.start >= overlap_start_time]
OverlapSegments(segments, current_segments) ==
    LET overlap_start_time == segments[current_segments[Len(current_segments)]].end
                                  - OVERLAP_SECONDS
    IN  SelectSeq(current_segments, LAMBDA s : segments[s].start >= overlap_start_time)

RECURSIVE ChunkLoop(_, _, _, _, _)
\* "for seg in transcript.segments" from position k on
ChunkLoop(segments, k, chunks, current_segments, current_chars) ==
    IF k > Len(segments) THEN FinalChunk(chunks, current_segments)
    ELSE LET seg_chars == segments[k].chars
         IN  IF current_chars + seg_chars > MAX_CHARS /\ current_segments # <<>>
             THEN LET overlap_segments == OverlapSegments(segments, current_segments)
                  IN  ChunkLoop(segments, k + 1, Append(chunks, current_segments),
                                Append(overlap_segments, k),
                                SumChars(segments, overlap_segments) + seg_chars)
             ELSE ChunkLoop(segments, k + 1, chunks, Append(current_segments, k),
                            current_chars + seg_chars)

chunk_transcript(segments) == ChunkLoop(segments, 1, <<>>, <<>>, 0)

InitChunk ==
    /\ JobInit
    /\ artifacts = NoArtifacts
    /\ hasTranscript = FALSE
    /\ input \in ChunkInputs
    /\ output = NoOutput
    /\ CurIdle

\* one call of _chunk_transcript
ChunkTranscript ==
    /\ input.fn = "_chunk_transcript"
    /\ output = NoOutput
    /\ output' = [fn |-> input.fn, chunks |-> chunk_transcript(input.segments)]
    /\ UNCHANGED <<input, cur_vars, job_vars>>

NextChunk == ChunkTranscript

SpecChunk == InitChunk /\ [][NextChunk]_vars


\* ------------------------------------------------------------ _call_agent
\* One call of _call_agent; self._llm.chat either returns the response text or raises.

AgentNames == {"FINDER", "CRITIC", "RANKER", "CAPTION"}

AgentInputs ==
    {[fn |-> "_call_agent", agent_name |-> a, max_retries |-> r] :
        a \in AgentNames, r \in 0..MaxRetriesArg}

\* what self._llm.chat can raise
ChatErrors == {Text("R", 3), Text("T", 3)}

\* faulty variant: the last retry is never made
CanRetryOnce(att, max_retries) == att + 1 < max_retries

\* if attempt < max_retries
CanRetry(att, max_retries) == att < max_retries

\* wait_time = 2 ** attempt
WaitTime(att) == 2 ^ att

\* RuntimeError(f"Agent {agent_name} failed: {e}")
AgentFailed(agent_name, e) == <<"Agent ", agent_name, " failed: ">> \o e

InitAgent ==
    /\ JobInit
    /\ artifacts = NoArtifacts
    /\ hasTranscript = FALSE
    /\ input = NoInput
    /\ output = NoOutput
    /\ CurIdle

\* _call_agent is entered: for attempt in range(max_retries + 1)
AgentCall ==
    /\ cpc = "idle"
    /\ input = NoInput
    /\ input' \in AgentInputs
    /\ cpc' = "try"
    /\ UNCHANGED <<output, chunk_i, all_clips, calls, paused_at, agent_vars, response, job_vars>>

\* the try block: chat returns and _call_agent returns its text
ChatReturns ==
    /\ cpc = "try"
    /\ chats' = chats + 1
    /\ output' = [fn |-> input.fn, result |-> "text", error |-> NoError]
    /\ cpc' = "returned"
    /\ UNCHANGED <<input, chunk_i, all_clips, calls, paused_at, attempt, slept, response, job_vars>>

\* the except block: another attempt after a wait, or the RuntimeError
ChatRaises ==
    /\ cpc = "try"
    /\ chats' = chats + 1
    /\ \E e \in ChatErrors :
          IF CanRetry(attempt, input.max_retries)
          THEN cpc' = "sleep" /\ UNCHANGED output
          ELSE /\ cpc' = "raised"
               /\ output' = [fn |-> input.fn, result |-> "RuntimeError",
                             error |-> AgentFailed(input.agent_name, e)]
    /\ UNCHANGED <<input, chunk_i, all_clips, calls, paused_at, attempt, slept, response, job_vars>>

\* time.sleep(wait_time), then the next round of the loop
Sleep ==
    /\ cpc = "sleep"
    /\ slept' = Append(slept, WaitTime(attempt))
    /\ attempt' = attempt + 1
    /\ cpc' = "try"
    /\ UNCHANGED <<input, output, chunk_i, all_clips, calls, paused_at, chats, response, job_vars>>

NextAgent ==
    \/ AgentCall
    \/ ChatReturns
    \/ ChatRaises
    \/ Sleep

SpecAgent == InitAgent /\ [][NextAgent]_vars


\* the calls of the two entry points
CurateInputs ==
    {[fn |-> "curate_chunked", top_n |-> t, nchunks |-> n, episode_number |-> ep,
      pause_callback |-> cb, min_duration |-> 30, max_duration |-> 90] :
        t \in 0..MaxTopN, n \in 0..MaxCurateChunks, ep \in {0, 1}, cb \in BOOLEAN}
    \cup
    {[fn |-> "curate", top_n |-> t, nchunks |-> 0, episode_number |-> ep,
      pause_callback |-> FALSE, min_duration |-> 30, max_duration |-> 90] :
        t \in 0..MaxTopN, ep \in {0, 1}}

\* len(transcript_text) > 6000: the chunk loop runs; otherwise one pass of curate()
Chunked == input.fn = "curate_chunked" /\ input.nchunks > 0

\* episode_number as curate() sees it: curate_chunked's short path does not pass it on
EpisodeNumber == IF input.fn = "curate_chunked" /\ input.nchunks = 0 THEN 0 ELSE input.episode_number

InitCurate ==
    /\ JobInit
    /\ artifacts = NoArtifacts
    /\ hasTranscript = FALSE
    /\ input = NoInput
    /\ output = NoOutput
    /\ CurIdle

CurateCall ==
    /\ cpc = "idle"
    /\ input = NoInput
    /\ \E in \in CurateInputs :
          /\ input' = in
          /\ cpc' = IF in.fn = "curate_chunked" /\ in.nchunks > 0 THEN "check" ELSE "finder"
    /\ UNCHANGED <<output, chunk_i, all_clips, calls, paused_at, agent_vars, response, job_vars>>

\* faulty variant: the answer of the callback is ignored
StopsOnPauseNever(reported) == FALSE

\* if pause_callback and pause_callback(): return all_clips
StopsOnPause(reported) == reported

PauseCheck ==
    /\ cpc = "check"
    /\ \E reported \in (IF input.pause_callback THEN BOOLEAN ELSE {FALSE}) :
          /\ paused_at' = IF reported THEN chunk_i ELSE paused_at
          /\ IF StopsOnPause(reported)
             THEN /\ output' = [fn |-> input.fn, clips |-> all_clips]
                  /\ cpc' = "returned"
             ELSE /\ cpc' = "finder"
                  /\ UNCHANGED output
    /\ UNCHANGED <<input, chunk_i, all_clips, calls, agent_vars, response, job_vars>>

\* the loop goes to the next chunk, or is over; curate() has a single pass
AfterChunk ==
    IF Chunked /\ chunk_i + 1 < input.nchunks
    THEN cpc' = "check" /\ chunk_i' = chunk_i + 1
    ELSE cpc' = "finish" /\ UNCHANGED chunk_i

\* a stage that found nothing: curate_chunked continues, curate returns []
NothingFound ==
    IF Chunked
    THEN AfterChunk /\ UNCHANGED output
    ELSE /\ cpc' = "returned"
         /\ output' = [fn |-> input.fn, clips |-> <<>>]
         /\ UNCHANGED chunk_i

Called(agent) == Append(calls, [agent |-> agent, chunk |-> chunk_i])

\* the response texts of an agent: with or without a ``` fence, holding the expected JSON
\* object, the object with a comma before its closing bracket, a JSON array of objects,
\* or no JSON at all
Responses ==
    { [fenced |-> FALSE, body |-> "object"],
      [fenced |-> FALSE, body |-> "object_trailing_comma"],
      [fenced |-> FALSE, body |-> "prose"],
      [fenced |-> TRUE, body |-> "array"] }

\* json_str: the inside of the fence, or the text from the first { to the last },
\* or the stripped text
ExtractJson(text) ==
    IF text.fenced THEN text.body
    ELSE IF text.body = "array" THEN "objects_in_a_row"
    ELSE text.body

\* json.loads(json_str): "dict", "list", or "JSONDecodeError"
Loads(json_str) ==
    IF json_str = "object" THEN "dict"
    ELSE IF json_str = "array" THEN "list"
    ELSE "JSONDecodeError"

\* step 5: trailing commas before ] or } are removed
Repair(json_str) == IF json_str = "object_trailing_comma" THEN "object" ELSE json_str

\* _parse_json(text): what it returns, "empty" being {}
parse_json(text) ==
    IF Loads(ExtractJson(text)) # "JSONDecodeError" THEN Loads(ExtractJson(text))
    ELSE IF Loads(Repair(ExtractJson(text))) # "JSONDecodeError" THEN Loads(Repair(ExtractJson(text)))
    ELSE "empty"

\* data.get(...) on what _parse_json returned raises AttributeError
GetRaises(data) == data \notin {"dict", "empty"}

\* faulty variant: the next stage is called although the answer held nothing
StageAlways(agent, next) ==
    /\ calls' = Called(agent)
    /\ \/ response' = NoResponse /\ cpc' = "raised" /\ UNCHANGED <<output, chunk_i>>
       \/ \E text \in Responses :
             /\ response' = text
             /\ IF GetRaises(parse_json(text))
                THEN cpc' = "raised" /\ UNCHANGED <<output, chunk_i>>
                ELSE \/ NothingFound
                     \/ cpc' = next /\ UNCHANGED <<output, chunk_i>>
    /\ UNCHANGED <<input, all_clips, paused_at, agent_vars, job_vars>>

\* one agent stage: _call_agent raises; or the response is parsed and the key read, which
\* raises, finds nothing, or finds entries and goes on to the stage next
Stage(agent, next) ==
    /\ calls' = Called(agent)
    /\ \/ response' = NoResponse /\ cpc' = "raised" /\ UNCHANGED <<output, chunk_i>>
       \/ \E text \in Responses :
             /\ response' = text
             /\ IF GetRaises(parse_json(text))
                THEN cpc' = "raised" /\ UNCHANGED <<output, chunk_i>>
                ELSE IF parse_json(text) = "empty"
                THEN NothingFound
                ELSE \/ NothingFound
                     \/ cpc' = next /\ UNCHANGED <<output, chunk_i>>
    /\ UNCHANGED <<input, all_clips, paused_at, agent_vars, job_vars>>

Finder ==
    /\ cpc = "finder"
    /\ Stage("FINDER", "critic")

Critic ==
    /\ cpc = "critic"
    /\ Stage("CRITIC", "ranker")

Ranker ==
    /\ cpc = "ranker"
    /\ calls' = Called("RANKER")
    /\ \/ response' = NoResponse /\ cpc' = "raised" /\ UNCHANGED <<chunk_i, all_clips>>
       \/ \E text \in Responses :
             /\ response' = text
             /\ IF GetRaises(parse_json(text))
                THEN cpc' = "raised" /\ UNCHANGED <<chunk_i, all_clips>>
                ELSE \E ranked \in (IF parse_json(text) = "empty" THEN {<<>>} ELSE RankedLists) :
                        IF ParseRaises(ranked)
                        THEN cpc' = "raised" /\ UNCHANGED <<chunk_i, all_clips>>
                        ELSE /\ all_clips' = all_clips \o
                                    ParseClips(ranked, input.min_duration, input.max_duration)
                             /\ Len(all_clips') <= MaxCollected
                             /\ AfterChunk
    /\ UNCHANGED <<input, output, paused_at, agent_vars, job_vars>>

\* the deduplication (chunked only) and the final sort; the list that will be returned
Finish ==
    /\ cpc = "finish"
    /\ output' = [fn |-> input.fn,
                  clips |-> SortByTotal(IF Chunked THEN deduplicate_clips(all_clips) ELSE all_clips)]
    /\ cpc' = IF EpisodeNumber > 0 /\ output'.clips # <<>> THEN "captions" ELSE "returned"
    /\ UNCHANGED <<input, chunk_i, all_clips, calls, paused_at, agent_vars, response, job_vars>>

\* display_clips = all_clips[:top_n] when top_n is set
DisplayCount(n, top_n) == IF top_n > 0 /\ top_n < n THEN top_n ELSE n

\* the caption calls that raise: _call_agent failed, or data.get on what is no dict
CaptionRaises(answer) == answer = NoResponse \/ GetRaises(parse_json(answer))

\* _generate_captions: one call after the other for the clips of display_clips, up to
\* the first call that raises; "if data:" sets the caption of a clip whose answer parsed;
\* then the return of the whole list
Captions ==
    /\ cpc = "captions"
    /\ LET n == DisplayCount(Len(output.clips), input.top_n)
       IN  \E answers \in [1..n -> Responses \cup {NoResponse}] :
              LET bad == {k \in 1..n : CaptionRaises(answers[k])}
                  last == IF bad = {} THEN n ELSE CHOOSE k \in bad : \A m \in bad : k <= m
              IN  /\ calls' = calls \o [k \in 1..last |-> [agent |-> "CAPTION", chunk |-> chunk_i]]
                  /\ response' = answers[last]
                  /\ IF bad = {}
                     THEN /\ output' = [output EXCEPT !.clips =
                                 [k \in DOMAIN output.clips |->
                                     IF k <= n /\ parse_json(answers[k]) = "dict"
                                     THEN [output.clips[k] EXCEPT !.social_caption = TRUE]
                                     ELSE output.clips[k]]]
                          /\ cpc' = "returned"
                     ELSE /\ cpc' = "raised"
                          /\ UNCHANGED output
    /\ UNCHANGED <<input, chunk_i, all_clips, paused_at, agent_vars, job_vars>>

\* the candidates the loop over ranked_clips is tried on, on its own
CandidateClips ==
    { RawClip(Num(0), Num(40), 60, 5, 0),                     \* 40 s, in range
      RawClip(Num(100), Num(200), 55, 5, 0),                  \* 100 s: over the maximum
      RawClip(Num(0), Num(20), 80, 5, 0),                     \* 20 s, total 85
      RawClip(Num(0), Num(20), 40, 5, 0),                     \* 20 s, total 45
      RawClip(Num(0), Num(10), 80, 5, 0),                     \* 10 s: under half the minimum
      RawClip(Num(0), Num(TranscriptDuration), 80, 5, 0),     \* the whole transcript
      RawClip(Missing, Num(40), 80, 5, 0),
      RawClip(Num(0), Word, 80, 5, 0),
      RawClip(NaN, Num(40), 80, 5, 0),
      RawClip(Num(0), Infinity, 80, 5, 0),
      RawClip(Num(-5), Num(40), 80, 5, 0),
      RawClip(Num(0), Num(TranscriptDuration + 1), 80, 5, 0),
      RawClip(Num(60), Num(50), 80, 5, 0),                    \* ends before it starts
      RawClip(Num(0), BigInt, 80, 5, 0),
      RawClip(Missing, BigInt, 80, 5, 0) }

CandidateLists == UNION {[1..n -> CandidateClips] : n \in 0..MaxRanked}

ParseInputs ==
    {[fn |-> "ranked_clips", ranked |-> r, min_duration |-> 30, max_duration |-> 90] :
        r \in CandidateLists}

\* a ranked_clips list is handed to the loop "for clip_data in ranked_clips"
ParseCall ==
    /\ cpc = "idle"
    /\ input = NoInput
    /\ input' \in ParseInputs
    /\ cpc' = "loop"
    /\ UNCHANGED <<output, chunk_i, all_clips, calls, paused_at, agent_vars, response, job_vars>>

\* the loop runs to its end, or one of its clip_data raises
ParseLoop ==
    /\ cpc = "loop"
    /\ IF ParseRaises(input.ranked)
       THEN /\ cpc' = "raised"
            /\ output' = [fn |-> input.fn, clips |-> <<>>, raised |-> TRUE]
       ELSE /\ cpc' = "returned"
            /\ output' = [fn |-> input.fn, raised |-> FALSE,
                          clips |-> ParseClips(input.ranked, input.min_duration,
                                               input.max_duration)]
    /\ UNCHANGED <<input, chunk_i, all_clips, calls, paused_at, agent_vars, response, job_vars>>

\* curate or curate_chunked has returned its list
CurateReturned == cpc = "returned" /\ input.fn \in {"curate", "curate_chunked"}

NextCurate ==
    \/ ParseCall
    \/ ParseLoop
    \/ CurateCall
    \/ PauseCheck
    \/ Finder
    \/ Critic
    \/ Ranker
    \/ Finish
    \/ Captions

SpecCurate == InitCurate /\ [][NextCurate]_vars


\* ------------------------------------------------------------------ claims

\* C1: pause_job(j) returns true and sets the status of j to paused exactly when the
\* stored status of j is processing; for every other stored status and for an unknown
\* job id it returns false and leaves the whole row unchanged.
C1_PauseContract ==
    call.op = "pause_job" =>
        /\ call.ret <=> (call.before.status = "processing")
        /\ call.ret => jobs[call.job].status = "paused"
        /\ ~call.ret => jobs[call.job] = call.before

C1_Witness ==
    /\ call.op = "pause_job"
    /\ call.job = TaskJob
    /\ call.ret
    /\ call.before.status = "processing"
    /\ jobs[TaskJob].status = "paused"

\* C2: resume_job(j) returns true and sets the status of j to resuming exactly when the
\* stored status of j is paused; otherwise it returns false and leaves the whole row
\* unchanged; last_clip_index, total_clips, progress and config are untouched either way.
C2_ResumeContract ==
    call.op = "resume_job" =>
        /\ call.ret <=> (call.before.status = "paused")
        /\ call.ret =>
              /\ jobs[call.job].status = "resuming"
              /\ jobs[call.job].last_clip_index = call.before.last_clip_index
              /\ jobs[call.job].total_clips = call.before.total_clips
              /\ jobs[call.job].progress = call.before.progress
              /\ jobs[call.job].config = call.before.config
        /\ ~call.ret => jobs[call.job] = call.before

C2_Witness ==
    /\ call.op = "resume_job"
    /\ call.job = TaskJob
    /\ call.ret
    /\ call.before.status = "paused"
    /\ jobs[TaskJob].status = "resuming"
    /\ jobs[TaskJob].last_clip_index > 0

\* C3: once the orchestrator has observed status paused at a clip boundary and stopped,
\* the enclosing background task does not change the status of the job.
C3_TaskKeepsPaused ==
    [][(pc = "ret_paused" /\ pc' # pc) => jobs'[TaskJob].status = jobs[TaskJob].status]_vars

\* C4: a pause_job that returned true is not lost: no step writes the stored status
\* from paused back to processing.
C4_PauseNotLost ==
    [][~(jobs[TaskJob].status = "paused" /\ jobs'[TaskJob].status = "processing")]_vars

\* C5: completed and error are absorbing: no step changes the status of a job that is
\* completed or error.
C5_TerminalAbsorbing ==
    [][jobs[TaskJob].status \in {"completed", "error"}
          => jobs'[TaskJob].status = jobs[TaskJob].status]_vars

AllowedTransitions ==
    {<<"absent", "pending">>, <<"pending", "processing">>, <<"processing", "paused">>,
     <<"paused", "resuming">>, <<"resuming", "processing">>, <<"processing", "completed">>}
    \cup {<<s, "error">> : s \in {"pending", "processing", "paused", "resuming"}}

\* C6: every status change of a job is an edge of the transition graph, and cancelled
\* is never written.
C6_TransitionGraph ==
    [][\A j \in JobIds :
          jobs'[j].status # jobs[j].status
             => <<jobs[j].status, jobs'[j].status>> \in AllowedTransitions]_vars

\* C7: the stored progress of every job lies in [0,100].
C7_ProgressRange ==
    \A j \in JobIds : HasJob(jobs, j) => (0 <= jobs[j].progress /\ jobs[j].progress <= 100)

\* C8: while the status of a job is processing, its stored progress never decreases.
C8_ProgressMonotone ==
    [][\A j \in JobIds :
          (jobs[j].status = "processing" /\ jobs'[j].status = "processing")
             => jobs'[j].progress >= jobs[j].progress]_vars

\* C9: last_clip_index never decreases across successive updates of the same job,
\* re-runs of the orchestrator on the job included.
C9_LastClipIndexMonotone ==
    [][\A j \in JobIds :
          (HasJob(jobs, j) /\ HasJob(jobs', j))
             => jobs'[j].last_clip_index >= jobs[j].last_clip_index]_vars

\* a re-run from clip 1 found the artifact of clip 2 and recorded it without extracting
C9_Witness ==
    /\ start_from_clip = 1
    /\ clips_generated = 0
    /\ pc = "ret"
    /\ artifacts[2] # "none"
    /\ jobs[TaskJob].last_clip_index = 2

\* C10: in every reachable state last_clip_index <= total_clips.
C10_LastClipWithinTotal ==
    \A j \in JobIds : HasJob(jobs, j) => jobs[j].last_clip_index <= jobs[j].total_clips

\* a run restricted to target clip 2 has recorded its single clip
C10_Witness ==
    /\ target_clip_id = 2
    /\ jobs[TaskJob].total_clips = 1
    /\ jobs[TaskJob].last_clip_index = 1

\* C11: the stored resume position is sound: in every reachable state each clip whose
\* 1-based number is at most last_clip_index has its output artifact.
C11_ResumePositionSound ==
    HasJob(jobs, TaskJob) =>
        \A k \in 1..MaxClips : k <= jobs[TaskJob].last_clip_index => artifacts[k] # "none"

\* C12: a re-run is idempotent: it hands to extraction no clip whose artifact exists, and
\* it leaves no remaining clip out: every clip the run passes over as already processed
\* (number at most start_from_clip) has its artifact.
C12_IdempotentResume ==
    /\ pc = "extract" => artifacts[i] = "none"
    /\ \A k \in 1..MaxClips :
          (k <= start_from_clip /\ k <= Len(valid_clips)) => artifacts[k] # "none"

\* C13: a job whose task has started, in a process that does not die, eventually stays in
\* completed, error or paused with a non-empty message, and its row is never deleted.
Landed ==
    /\ HasJob(jobs, TaskJob)
    /\ jobs[TaskJob].status \in {"completed", "error", "paused"}
    /\ jobs[TaskJob].message # <<>>

C13_JobLands ==
    /\ (pc \notin {"unsubmitted", "queued"}) ~> [](Landed)
    /\ [][HasJob(jobs, TaskJob) => HasJob(jobs', TaskJob)]_vars

\* a run ended by an agent failure has landed in error
C13_Witness ==
    /\ pc = "done"
    /\ Landed
    /\ jobs[TaskJob].status = "error"
    /\ jobs[TaskJob].error \in AgentErrors

\* C14: a job that resume_job has put in resuming reaches completed only through a run that
\* went on to its remaining clips: the step that takes it from resuming to completed is
\* the return of a run that did not stop at a pause check.
C14_ResumedJobIsProcessed ==
    [][(HasJob(jobs, TaskJob) /\ jobs[TaskJob].status = "resuming"
            /\ jobs'[TaskJob].status = "completed") => pc = "ret"]_vars

\* C15: the write of the stale-job sweep changes no row that is not in processing at the
\* moment of the write, whatever happened to the row since the sweep selected it.
C15_SweepWritesProcessingOnly ==
    [][\A j \in JobIds :
          (j \in stale /\ j \notin stale' /\ jobs[j].status # "processing") => jobs'[j] = jobs[j]]_vars

\* C16: when the task wrapper catches the failure an agent raised, the job gets status
\* error, its message is "Error: " followed by the first 100 characters of the error text
\* (all of it when shorter), its error field is the whole text, and a job that carries
\* an agent's error text is in status error ever after.
C16_StageFailure ==
    /\ [][(pc = "exc" /\ raised \in AgentErrors /\ pc' = "done") =>
            LET row == jobs'[TaskJob]
                shown == IF Len(raised) < ERROR_MESSAGE_CHARS THEN Len(raised)
                         ELSE ERROR_MESSAGE_CHARS
            IN  /\ row.status = "error"
                /\ row.error = raised
                /\ Len(row.message) = 1 + shown
                /\ row.message[1] = "Error: "
                /\ \A k \in 1..shown : row.message[k + 1] = raised[k]]_vars
    /\ [](HasJob(jobs, TaskJob) /\ jobs[TaskJob].error \in AgentErrors
            => jobs[TaskJob].status = "error")

\* an agent failure with a text of more than 100 characters has been recorded
C16_Witness ==
    /\ pc = "done"
    /\ jobs[TaskJob].status = "error"
    /\ jobs[TaskJob].error \in AgentErrors
    /\ Len(jobs[TaskJob].error) > ERROR_MESSAGE_CHARS
    /\ Len(jobs[TaskJob].message) = 1 + ERROR_MESSAGE_CHARS

\* C17: the score threshold is the single gate. Once a run has its clip list, the list
\* holds exactly the curated clips (returned by curation or loaded from the curation file)
\* whose total is at least min_score, or one of them when a target clip is set, best score
\* first; the clip loop is at a clip of that list after start_from_clip, moves on one clip
\* at a time, and returns from a non-empty list only after its last clip.
InClipLoop == pc \in {"loop", "clip_prog", "clip_skip", "extract", "clip_done"}

C17_ScoreGate ==
    /\ [](valid_clips # <<>> =>
            /\ curation_file.exists
            /\ \A k \in DOMAIN valid_clips : valid_clips[k] >= min_score
            /\ \A a, b \in DOMAIN valid_clips : a < b => valid_clips[a] >= valid_clips[b]
            /\ \A v \in Scores :
                  IF target_clip_id = 0
                  THEN Count(valid_clips, v) =
                          (IF v >= min_score THEN Count(curation_file.clips, v) ELSE 0)
                  ELSE Len(valid_clips) = 1 /\ Count(valid_clips, v) <= Count(curation_file.clips, v)
            /\ InClipLoop => start_from_clip < i /\ i <= Len(valid_clips)
            /\ pc = "ret" => i = Len(valid_clips) + 1)
    /\ [][(InClipLoop /\ i' # i /\ (InClipLoop' \/ pc' = "ret")) => i' = i + 1]_vars

\* clip 2 of a list that curation returned in ascending order is handed to extraction
C17_Witness ==
    /\ pc = "extract"
    /\ i = 2
    /\ target_clip_id = 0
    /\ curation_file = ClipFile(<<70, 85>>)
    /\ valid_clips = <<85, 70>>

\* C20: the classification returns, for every duration, range and score, the result of
\* the first row of the table that applies: shorter than half the minimum: invalid; longer
\* than 180 s: invalid; within the range: valid; longer than the maximum: pending; shorter
\* than the minimum with a score of at least 50: pending; otherwise invalid.
DurationTable(duration, min_duration, max_duration, score) ==
    LET rows == << <<2 * duration < min_duration, "invalid">>,
                   <<duration > 180, "invalid">>,
                   <<min_duration <= duration /\ duration <= max_duration, "valid">>,
                   <<duration > max_duration /\ duration <= 180, "pending">>,
                   <<duration < min_duration /\ score >= 50, "pending">>,
                   <<duration < min_duration /\ score < 50, "invalid">> >>
        applies == {r \in DOMAIN rows : rows[r][1]}
    IN  IF applies = {} THEN "none"
        ELSE rows[CHOOSE r \in applies : \A q \in applies : r <= q][2]

C20_DurationClassification ==
    (input.fn = "_validate_clip_duration" /\ output # NoOutput) =>
        LET duration == input.end_time - input.start_time
        IN  /\ output.status =
                  DurationTable(duration, input.min_duration, input.max_duration, input.virality_score)
            /\ output.status \in {"valid", "pending", "invalid"}
            /\ (duration = 10 /\ input.min_duration = 30) => output.status = "invalid"
            /\ (duration = 95 /\ input.max_duration = 90) => output.status = "pending"
            /\ (duration = 20 /\ input.min_duration = 30 /\ input.virality_score = 60)
                  => output.status = "pending"
            /\ (duration = 20 /\ input.min_duration = 30 /\ input.virality_score = 10)
                  => output.status = "invalid"

\* a clip of 20 s against a minimum of 30 s with score 60 has been sent to review
C20_Witness ==
    /\ input.fn = "_validate_clip_duration"
    /\ input.end_time - input.start_time = 20
    /\ input.min_duration = 30
    /\ input.virality_score = 60
    /\ output # NoOutput
    /\ output.status = "pending"

\* C18: once pause_callback has reported paused before chunk i, curate_chunked has
\* returned: no Finder, Critic, Ranker or caption call was made for chunk i or a later
\* chunk, and the list returned is the clips collected from the chunks before i.
C18_PauseStopsCuration ==
    paused_at >= 0 =>
        /\ cpc = "returned"
        /\ \A c \in DOMAIN calls : calls[c].chunk < paused_at /\ calls[c].agent # "CAPTION"
        /\ output.clips = all_clips

\* paused before the second chunk, the clips of the first chunk are returned
C18_Witness ==
    /\ paused_at = 1
    /\ cpc = "returned"
    /\ Len(calls) = 3
    /\ Len(output.clips) = 2

\* C19: whenever curate or curate_chunked has returned, the list it returned is sorted by
\* total score, best first, and is the whole list of accepted clips (after
\* deduplication when the chunk loop ran), whatever top_n is.
NoCaptions(clips) == [k \in DOMAIN clips |-> [clips[k] EXCEPT !.social_caption = FALSE]]

C19_FullSortedReturn ==
    CurateReturned =>
        /\ \A a, b \in DOMAIN output.clips :
              a < b => Total(output.clips[a]) >= Total(output.clips[b])
        /\ NoCaptions(output.clips) =
              SortByTotal(IF Chunked THEN deduplicate_clips(all_clips) ELSE all_clips)

\* C21: every clip curation returns ends after it starts; a returned clip that is not
\* pending_review has its duration within the caller's [min_duration, max_duration]; a
\* clip the duration table classifies pending is returned tagged pending_review with a
\* non-empty review_reason, neither dropped nor untagged; a clip classified invalid is not
\* returned. Stated of the list curate / curate_chunked return and, candidate by
\* candidate, of the loop that builds the clips from ranked_clips.
ClipSound(c, min_duration, max_duration) ==
    /\ c.end_time > c.start_time
    /\ ~c.pending_review => min_duration <= Duration(c) /\ Duration(c) <= max_duration
    /\ c.pending_review =>
          /\ c.review_reason # <<>>
          /\ ~(min_duration <= Duration(c) /\ Duration(c) <= max_duration)
    /\ 2 * Duration(c) >= min_duration
    /\ Duration(c) <= HARD_MAX_DURATION

\* both timestamps are numbers of seconds within the transcript, the end after the start
SaneTimestamps(raw) ==
    /\ raw.start_time.kind = "number" /\ raw.end_time.kind = "number"
    /\ 0 <= raw.start_time.v /\ raw.start_time.v < raw.end_time.v
    /\ raw.end_time.v <= TranscriptDuration

ClassOf(raw, min_duration, max_duration) ==
    DurationTable(raw.end_time.v - raw.start_time.v, min_duration, max_duration, Total(raw))

TimestampsWithin(c) ==
    0 <= c.start_time /\ c.start_time < c.end_time /\ c.end_time <= TranscriptDuration

C22_TimestampsSanitized ==
    /\ cpc = "returned" =>
          \A k \in DOMAIN output.clips : TimestampsWithin(output.clips[k])
    /\ (input.fn = "ranked_clips" /\ cpc # "loop") =>
          /\ cpc = "returned"
          /\ output.clips =
                ParseClips(SelectSeq(input.ranked, SaneTimestamps),
                           input.min_duration, input.max_duration)

\* C23: whatever list of clips the deduplication is given, its output holds no two clips
\* that are duplicates of each other: no pair whose overlap is more than 50% of the
\* duration of one of the two.
OverlapOf(a, b) ==
    LET from == IF a.start_time > b.start_time THEN a.start_time ELSE b.start_time
        to == IF a.end_time < b.end_time THEN a.end_time ELSE b.end_time
    IN  IF to > from THEN to - from ELSE 0

Duplicates(a, b) ==
    \/ 2 * OverlapOf(a, b) > a.end_time - a.start_time
    \/ 2 * OverlapOf(a, b) > b.end_time - b.start_time

C23_NoDuplicatesLeft ==
    output.fn = "_deduplicate_clips" =>
        \A a, b \in DOMAIN output.clips :
            a # b => ~Duplicates(output.clips[a], output.clips[b])

\* C24: of two clips whose overlap is at most 50% of each clip's duration (as [10,50] and
\* [40,70]) the deduplication keeps both; of two clips whose overlap is more than 50% of
\* the duration of at least one (as [10,50] and [30,55]) it keeps exactly one, the one
\* with the strictly higher total score, whichever of the two is given first.
Reversed(pair) == <<pair[2], pair[1]>>

C24_PairAnyOrder ==
    (output.fn = "_deduplicate_clips" /\ Len(input.clips) = 2) =>
        LET a == input.clips[1]
            b == input.clips[2]
        IN  IF Duplicates(a, b)
            THEN /\ Len(output.clips) = 1
                 /\ \/ output.clips = <<a>> /\ Total(a) > Total(b)
                    \/ output.clips = <<b>> /\ Total(b) > Total(a)
                 /\ output.clips = deduplicate_clips(Reversed(input.clips))
            ELSE /\ Len(output.clips) = 2
                 /\ {output.clips[1], output.clips[2]} = {a, b}

\* C24 as amended: when the totals are equal the clip kept is the one that starts first,
\* and of two clips with the same start the one given first.
C24_PairDedup ==
    (output.fn = "_deduplicate_clips" /\ Len(input.clips) = 2) =>
        LET a == input.clips[1]
            b == input.clips[2]
        IN  IF Duplicates(a, b)
            THEN /\ Len(output.clips) = 1
                 /\ Total(a) > Total(b) => output.clips = <<a>>
                 /\ Total(b) > Total(a) => output.clips = <<b>>
                 /\ Total(a) = Total(b) =>
                       output.clips = IF b.start_time < a.start_time THEN <<b>> ELSE <<a>>
                 /\ Total(a) # Total(b) =>
                       output.clips = deduplicate_clips(Reversed(input.clips))
            ELSE /\ Len(output.clips) = 2
                 /\ {output.clips[1], output.clips[2]} = {a, b}

\* [30,55] with total 60 is given before [10,50] with total 70, and [10,50] is kept
C24_Witness ==
    /\ output.fn = "_deduplicate_clips"
    /\ Len(input.clips) = 2
    /\ input.clips[1].start_time = 30 /\ input.clips[1].end_time = 55
    /\ input.clips[2].start_time = 10 /\ input.clips[2].end_time = 50
    /\ Total(input.clips[1]) = 60 /\ Total(input.clips[2]) = 70
    /\ output.clips = <<input.clips[2]>>

\* C25: an agent call invokes the generation capability at most 3 times (one attempt and
\* at most 2 retries), waits 1 s after the first failure and 2 s after the second, returns
\* at the first successful response with no further attempt, and raises the stage failure
\* exactly when all 3 attempts failed. Stated for any max_retries: max_retries + 1
\* attempts and waits of 1, 2, 4, ... seconds, and in numbers for the default.
Backoff(n) == [k \in 1..n |-> 2 ^ (k - 1)]

C25_RetryContract ==
    input.fn = "_call_agent" =>
        /\ chats <= input.max_retries + 1
        /\ cpc = "try" => chats = attempt /\ slept = Backoff(attempt)
        /\ cpc = "sleep" => chats = attempt + 1 /\ slept = Backoff(attempt)
        /\ cpc = "returned" =>
              /\ chats = attempt + 1
              /\ slept = Backoff(chats - 1)
              /\ output.result = "text"
        /\ cpc = "raised" =>
              /\ chats = input.max_retries + 1
              /\ slept = Backoff(input.max_retries)
              /\ output.result = "RuntimeError"
        /\ chats = input.max_retries + 1 => cpc \in {"returned", "raised"}
        /\ input.max_retries = MAX_RETRIES =>
              /\ chats <= 3
              /\ slept \in {<<>>, <<1>>, <<1, 2>>}
              /\ cpc = "raised" => chats = 3 /\ slept = <<1, 2>>

\* with the default max_retries the third attempt succeeded after waits of 1 s and 2 s
C25_Witness ==
    /\ input.fn = "_call_agent"
    /\ input.max_retries = MAX_RETRIES
    /\ cpc = "returned"
    /\ chats = 3
    /\ slept = <<1, 2>>

\* C26: malformed generation output never raises: when the response text of Finder, Critic
\* or Ranker does not parse as the expected JSON object, neither strictly nor after the
\* repair pass, the stage has found nothing: the chunk adds no clip, the clips of the
\* other chunks are kept, and curation goes on to the next chunk (or, after the last,
\* to its return).
Malformed(text) == text.body \notin {"none", "object", "object_trailing_comma"}

LastAgent(cs) == IF cs = <<>> THEN "none" ELSE cs[Len(cs)].agent

C26_MalformedOutputTolerated ==
    [][(calls' # calls /\ LastAgent(calls') \in {"FINDER", "CRITIC", "RANKER"}
            /\ Malformed(response'))
        => /\ cpc' # "raised"
           /\ all_clips' = all_clips
           /\ Chunked => cpc' \in {"check", "finish"}]_vars

\* C27: caption generation is sequential and tolerates failures: when the caption call of
\* one clip fails after its retries, or returns text that cannot be used, that clip's
\* caption stays empty, the following clips still get their caption calls, and curation
\* returns the full list without raising.
CaptionCalls == Cardinality({c \in DOMAIN calls : calls[c].agent = "CAPTION"})

C27_CaptionFailureTolerated ==
    (input.fn \in {"curate", "curate_chunked"} /\ LastAgent(calls) = "CAPTION") =>
        /\ cpc = "returned"
        /\ CaptionCalls = DisplayCount(Len(output.clips), input.top_n)
        /\ NoCaptions(output.clips) =
              SortByTotal(IF Chunked THEN deduplicate_clips(all_clips) ELSE all_clips)

\* C28: when curate_chunked is called with episode_number > 0, exactly one caption call is
\* made for each clip it returns, for a transcript short enough for a single pass as for
\* one that is split into chunks, and for every top_n.
C28_CaptionPerReturnedClip ==
    (CurateReturned /\ input.fn = "curate_chunked" /\ input.episode_number > 0) =>
        CaptionCalls = Len(output.clips)

\* C29: the chunks cover the transcript with no gap and no dropped content: every segment
\* is in at least one chunk, each chunk is a run of consecutive segments in their order,
\* the first chunk starts at the first segment, the last chunk ends at the last segment,
\* and each later chunk starts at or before the segment that follows the last segment of
\* the chunk before it.
LastOf(seq) == seq[Len(seq)]

InChunk(k, c) == \E j \in DOMAIN c : c[j] = k

C29_ChunksCover ==
    output.fn = "_chunk_transcript" =>
        LET n == Len(input.segments)
            ch == output.chunks
        IN  /\ \A k \in 1..n : \E c \in DOMAIN ch : InChunk(k, ch[c])
            /\ \A c \in DOMAIN ch :
                  /\ ch[c] # <<>>
                  /\ \A j \in 1..(Len(ch[c]) - 1) : ch[c][j + 1] = ch[c][j] + 1
            /\ n = 0 => ch = <<>>
            /\ n > 0 => ch # <<>> /\ ch[1][1] = 1 /\ LastOf(LastOf(ch)) = n
            /\ \A c \in 2..Len(ch) : ch[c][1] <= LastOf(ch[c - 1]) + 1

\* three chunks: the second begins with segments of the first, the third begins right
\* after the second without any
C29_Witness ==
    /\ output.fn = "_chunk_transcript"
    /\ Len(output.chunks) = 3
    /\ output.chunks[2][1] <= LastOf(output.chunks[1])
    /\ output.chunks[3][1] = LastOf(output.chunks[2]) + 1

\* C30: every segment carried over as overlap (a segment of chunk k that starts within
\* overlap_seconds of the end of chunk k) is in exactly two chunks, the consecutive chunks
\* k and k+1; every other segment is in exactly one chunk.
ChunksWith(k) == {c \in DOMAIN output.chunks : InChunk(k, output.chunks[c])}

\* segment k is carried over from chunk c, which is not the last
CarriedFrom(k, c) ==
    /\ c < Len(output.chunks)
    /\ InChunk(k, output.chunks[c])
    /\ input.segments[k].start >=
          input.segments[LastOf(output.chunks[c])].end - OVERLAP_SECONDS

C30_OverlapInTwoChunks ==
    output.fn = "_chunk_transcript" =>
        \A k \in DOMAIN input.segments :
            IF \E c \in DOMAIN output.chunks : CarriedFrom(k, c)
            THEN \E c \in DOMAIN output.chunks : CarriedFrom(k, c) /\ ChunksWith(k) = {c, c + 1}
            ELSE Cardinality(ChunksWith(k)) = 1

\* C31: every chunk has a total formatted length of at most max_chars, except a chunk
\* that is one segment which alone exceeds the budget; a chunk seeded with an overlap
\* tail keeps to the budget too.
ChunkChars(c) == SumChars(input.segments, c)

C31_ChunkWithinBudget ==
    output.fn = "_chunk_transcript" =>
        \A c \in DOMAIN output.chunks :
            \/ ChunkChars(output.chunks[c]) <= MAX_CHARS
            \/ /\ Len(output.chunks[c]) = 1
               /\ input.segments[output.chunks[c][1]].chars > MAX_CHARS

\* C32: every clip produced by curation, whatever sub-scores the Ranker answer holds, has
\* each of its ten sub-scores in [0,10], a total that is the sum of the ten sub-scores
\* (also after the bonus and after the round trip through the file), and a total in
\* [0,100].
HasClip == output.fn = "clip_data" /\ output.stage # "skipped"

Produced == HasClip /\ output.stage # "validated"

C32_ScoreInRange ==
    Produced =>
        /\ \A d \in Dimensions :
              0 <= output.clip.virality_score[d] /\ output.clip.virality_score[d] <= 10
        /\ 0 <= ScoreTotal(output.clip.virality_score)
        /\ ScoreTotal(output.clip.virality_score) <= 100
        /\ output.stage \in {"saved", "loaded"} =>
              output.stored.virality_score.total = ScoreTotal(output.clip.virality_score)

\* C33: writing a CuratedClip to its dict and reading it back gives an equal clip (start,
\* end, title, summary, category, the ten sub-scores, hashtags, caption fields,
\* pending_review, review_reason), so the clip loaded from the curation file is the clip
\* that was saved.
C33_RoundTrip ==
    HasClip =>
        /\ ClipFromDict(ClipToDict(output.clip)) = output.clip
        /\ output.stage = "loaded" =>
              /\ ClipToDict(output.clip) = output.stored
              /\ output.clip.virality_score = ScoreFromDict(output.stored.virality_score)

\* a captioned clip tagged for review was saved and loaded
C33_Witness ==
    /\ output.fn = "clip_data"
    /\ output.stage = "loaded"
    /\ output.clip.pending_review
    /\ output.clip.review_reason = "Duration outside range"
    /\ output.clip.social_caption = "caption"
    /\ output.clip.suggested_hashtags = <<"#podcast">>
    /\ output.stored.virality_score.total = 97

\* C37: the performance bonus is applied exactly once to each clip curation returns,
\* after the duration validation and never again when the clip is loaded from the
\* curation file; it changes nothing but optimal_duration, and the new optimal_duration
\* is in [0,10] when the Ranker's value is.
C37_BonusOnce ==
    Produced =>
        LET before == CuratedClipV2(input)
            then == output.clip
        IN  /\ output.bonuses = 1
            /\ then.virality_score.optimal_duration =
                  Clamp10(before.virality_score.optimal_duration + Bonus(before))
            /\ \A d \in Dimensions \ {"optimal_duration"} :
                  then.virality_score[d] = before.virality_score[d]
            /\ [then EXCEPT !.virality_score = before.virality_score,
                            !.social_caption = "", !.caption_hashtags = <<>>] = before
            /\ (0 <= before.virality_score.optimal_duration
                   /\ before.virality_score.optimal_duration <= 10)
                  => (0 <= then.virality_score.optimal_duration
                         /\ then.virality_score.optimal_duration <= 10)

\* a clip whose optimal_duration 7 was raised to the cap has been saved and loaded
C37_Witness ==
    /\ output.fn = "clip_data"
    /\ output.stage = "loaded"
    /\ output.bonuses = 1
    /\ input.virality_score.optimal_duration = 7
    /\ Bonus(CuratedClipV2(input)) = 9
    /\ output.clip.virality_score.optimal_duration = 10

\* C34: when curation.json exists for the episode, process_episode does not call the
\* curator and filters the persisted clip list; curation runs, and its result is written,
\* only when the file does not exist.
CurationPcs == {"cur_short", "cur_init", "cur_check", "cur_prog"}

C34_CurationShortCircuit ==
    [][/\ (pc = "pe35" /\ pc' \notin {"pe35", "crashed"}) =>
              IF curation_file.exists
              THEN /\ pc' \in {"ret", "set_total"}
                   /\ valid_clips' = FilterClips(curation_file.clips, target_clip_id)
                   /\ curation_file' = curation_file
              ELSE pc' \in {"cur_short", "cur_init"}
       /\ pc' \in CurationPcs => ~curation_file'.exists
       /\ curation_file' # curation_file => pc \in CurationPcs /\ ~curation_file.exists
      ]_vars

\* a later run of the episode found curation.json and went on to the clip loop with its
\* clips
C34_Witness ==
    /\ pc = "set_total"
    /\ start_from_clip >= 1
    /\ curation_file.exists
    /\ valid_clips = FilterClips(curation_file.clips, target_clip_id)
    /\ Len(valid_clips) = 2

\* C35: a clip's failure is contained and the clips already produced stay: when the
\* processing of one clip raises, the job is not failed by it and the loop goes on with
\* the next clip, and no artifact of this run or of an earlier run is ever removed or
\* overwritten.
C35_ClipFailureContained ==
    [][/\ \A k \in DOMAIN artifacts : artifacts[k] # "none" => artifacts'[k] = artifacts[k]
       /\ (pc = "extract" /\ pc' \notin {"extract", "crashed"}) =>
              /\ jobs' = jobs
              /\ pc' # "exc"
              /\ pc' = "clip_done" \/ (i' = i + 1 /\ pc' = LoopAt(i + 1))
      ]_vars

\* the first clip was produced, the second failed, the loop ended and the job goes on to
\* completion
C35_Witness ==
    /\ pc = "ret"
    /\ i = 3
    /\ Len(valid_clips) = 2
    /\ start_from_clip = 0
    /\ artifacts[1] # "none"
    /\ artifacts[2] = "none"
    /\ clips_generated = 1
    /\ StatusOf(TaskJob) = "processing"

\* C36: the generation calls of one curation run are strictly ordered: per chunk Finder,
\* then Critic, then Ranker; Critic only after a Finder answer with candidates and Ranker
\* only after a Critic answer with approved clips; no call for a later chunk before the
\* calls of the chunk before it are over; caption calls only after the Ranker calls of
\* all chunks and after the deduplication.
Agents(cs) == {cs[k].agent : k \in DOMAIN cs}

C36_CallOrder ==
    [][calls' # calls =>
          LET new == calls'[Len(calls')]
              last == calls[Len(calls)]
          IN  /\ Len(calls') > Len(calls)
              /\ SubSeq(calls', 1, Len(calls)) = calls
              /\ new.agent = "FINDER" =>
                    /\ Len(calls') = Len(calls) + 1
                    /\ "CAPTION" \notin Agents(calls)
                    /\ \A k \in DOMAIN calls : calls[k].chunk < new.chunk
              /\ new.agent = "CRITIC" =>
                    /\ Len(calls') = Len(calls) + 1
                    /\ calls # <<>> /\ last = [agent |-> "FINDER", chunk |-> new.chunk]
                    /\ parse_json(response) = "dict"
              /\ new.agent = "RANKER" =>
                    /\ Len(calls') = Len(calls) + 1
                    /\ calls # <<>> /\ last = [agent |-> "CRITIC", chunk |-> new.chunk]
                    /\ parse_json(response) = "dict"
              /\ new.agent = "CAPTION" =>
                    /\ \A k \in (Len(calls) + 1)..Len(calls') : calls'[k].agent = "CAPTION"
                    /\ "CAPTION" \notin Agents(calls)
                    /\ cpc = "captions"
                    /\ output.fn = input.fn
                    /\ output.clips =
                          SortByTotal(IF Chunked THEN deduplicate_clips(all_clips) ELSE all_clips)
      ]_vars

\* two chunks went through Finder, Critic and Ranker, and a caption call followed
C36_Witness ==
    /\ cpc = "returned"
    /\ Len(calls) >= 7
    /\ [k \in 1..6 |-> calls[k].agent] =
          <<"FINDER", "CRITIC", "RANKER", "FINDER", "CRITIC", "RANKER">>
    /\ [k \in 1..6 |-> calls[k].chunk] = <<0, 0, 0, 1, 1, 1>>
    /\ calls[7].agent = "CAPTION"

\* C38: curation.json is written only for a curation pass that covered every chunk of the
\* transcript: when the job is paused during curation, the partial clip list is not stored
\* as the episode's curation result, so a later run still curates the remaining chunks.
C38_OnlyFullCurationPersisted ==
    [][curation_file' # curation_file =>
          \/ pc = "cur_short"
          \/ pc = "cur_prog" /\ chunk + 1 = nchunks
      ]_vars

\* C39: deduplication never loses a clip without a replacement that is at least as good:
\* every clip _deduplicate_clips removes overlaps by more than 50% (of its own or of the
\* other's duration) with a clip of the output whose total is at least its own; a clip of
\* the highest total is always in the output.
C39_RemovedHasReplacement ==
    output.fn = "_deduplicate_clips" =>
        /\ \A k \in DOMAIN input.clips :
              (\A m \in DOMAIN output.clips : output.clips[m] # input.clips[k]) =>
                  \E m \in DOMAIN output.clips :
                      /\ IsDuplicate(input.clips[k], output.clips[m])
                      /\ Total(output.clips[m]) >= Total(input.clips[k])
        /\ input.clips # <<>> =>
              \E m \in DOMAIN output.clips :
                  \A k \in DOMAIN input.clips : Total(output.clips[m]) >= Total(input.clips[k])

\* C40: when a job reaches completed, its stored clips_generated is the number of clips of
\* the episode whose artifact exists, also when the run skipped clips whose artifacts an
\* earlier run had produced, in the approved or in the review folder.
ArtifactCount == Cardinality({k \in DOMAIN artifacts : artifacts[k] # "none"})

C40_CompletedCountsArtifacts ==
    StatusOf(TaskJob) = "completed" => jobs[TaskJob].clips_generated = ArtifactCount

====
